---- MODULE Spec2Model ----
(***************************************************************************)
(* Device-tree source parser of qgenie_dts_summit                          *)
(* (src/app/services/parser.py) and the structural diff of                 *)
(* src/app/routes/main.py.                                                 *)
(*                                                                         *)
(* A text is a sequence of one-character strings.  The index variables of  *)
(* the scanners keep the 0-based values of the Python code; text[i] of the *)
(* code is text[i + 1] here.                                               *)
(***************************************************************************)
EXTENDS Integers, Sequences, FiniteSets, TLC

VARIABLES
    pc,            \* position of the call that is being followed
    text,          \* _strip_comments: argument
    stripped,      \* _strip_comments: returned text
    line,          \* _count_braces_outside_strings: argument
    counted,       \* _count_braces_outside_strings: returned (opens, closes)
    content,       \* parse_dtsi_with_map: argument
    lines,         \* parse_dtsi_with_map: clean.splitlines()
    idx,           \* parse_dtsi_with_map: number of the line last processed
    stack,         \* parse_dtsi_with_map: open frames, top is the last one
    nodes,         \* parse_dtsi_with_map: node id -> node record
    edges,         \* parse_dtsi_with_map: sequence of (parent id, child id)
    paths,         \* parse_dtsi_with_map: set of paths
    brace_depth,   \* parse_dtsi_with_map: running depth
    node_index,    \* parse_dtsi_with_map: next node number
    graph_lines,   \* parse_dtsi_with_map: diagram entries
    result,        \* parse_dtsi_with_map: returned dictionary
    opens,         \* parse_dtsi_with_map: opening braces of the last line
    closes,        \* parse_dtsi_with_map: closing braces of the last line
    file_a,        \* diff_view: text of file a
    file_b,        \* diff_view: text of file b
    sa,            \* diff_view: path set of file a
    sb,            \* diff_view: path set of file b
    tree_delta,    \* diff_view: structure diff
    ov_content,         \* parse_overview_mermaid: argument content
    max_root_children,  \* parse_overview_mermaid: argument
    max_soc_children,   \* parse_overview_mermaid: argument
    root_sorted,        \* parse_overview_mermaid: ranked top groups
    soc_sorted,         \* parse_overview_mermaid: ranked children of soc
    overview,           \* parse_overview_mermaid: returned diagram
    idle_content,       \* parse_idle_mermaid: argument content
    info,               \* parse_idle_mermaid: extract_idle_info(content)
    idle_diagram,       \* parse_idle_mermaid: returned diagram
    strip_state,        \* _strip_comments: the locals, iteration by iteration
    count_state,        \* _count_braces_outside_strings: the locals, likewise
    program,            \* which of the two servers runs: git_service or app
    State,              \* STATE of that server: project name -> entry
    threads,            \* the clone threads started, with their locals
    linux_dir           \* project name -> state of <project>/linux on disk

vars == <<pc, text, stripped, line, counted, content, lines, idx, stack,
          nodes, edges, paths, brace_depth, node_index, graph_lines, result,
          opens, closes, file_a, file_b, sa, sb, tree_delta,
          ov_content, max_root_children, max_soc_children, root_sorted,
          soc_sorted, overview, idle_content, info, idle_diagram,
          strip_state, count_state, program, State, threads, linux_dir>>

stripVars == <<text, stripped>>
countVars == <<line, counted>>
parseVars == <<content, lines, idx, stack, nodes, edges, paths, brace_depth,
               node_index, graph_lines, result, opens, closes>>
diffVars == <<file_a, file_b, sa, sb, tree_delta>>
overviewVars == <<ov_content, max_root_children, max_soc_children,
                  root_sorted, soc_sorted, overview>>
idleVars == <<idle_content, info, idle_diagram>>
loopVars == <<strip_state, count_state>>
cloneVars == <<program, State, threads, linux_dir>>
restVars == <<overviewVars, idleVars, loopVars, cloneVars>>

----------------------------------------------------------------------------
(* Characters *)

NL == "\n"
CR == "\r"
DQ == "\""
SQ == "'"
BS == "\\"
SP == " "
TAB == "\t"

\* The characters of the model's texts in code-point order (Python compares
\* strings by code point).
AsciiOrder ==
    << TAB, NL, CR, SP, DQ, "&", SQ, "*", ",", "-", ".", "/",
       "0", "1", "2", "3", "4", "5", "6", "7", "8", "9", ":", ";", "=", "@",
       BS, "_",
       "a", "b", "c", "d", "e", "f", "g", "h", "i", "j", "k", "l", "m",
       "n", "o", "p", "q", "r", "s", "t", "u", "v", "w", "x", "y", "z",
       "{", "}" >>

Ord(c) == CHOOSE k \in 1..Len(AsciiOrder) : AsciiOrder[k] = c

\* All texts over the alphabet A of length at most n.
TextsUpTo(A, n) == UNION {[1..k -> A] : k \in 0..n}

\* Number of occurrences of character c in text t.
RECURSIVE CountChar(_, _)
CountChar(t, c) ==
    IF t = <<>> THEN 0
    ELSE (IF Head(t) = c THEN 1 ELSE 0) + CountChar(Tail(t), c)

\* t without its first k characters.
Drop(t, k) == SubSeq(t, k + 1, Len(t))

----------------------------------------------------------------------------
(* _strip_comments *)

StripInit ==
    [i |-> 0, out |-> <<>>, in_str |-> FALSE, str_ch |-> "",
     in_line_comment |-> FALSE, in_block_comment |-> FALSE]

\* ch in ("'", '"')
OpensStringM(ch) == ch = DQ
OpensString(ch) == ch \in {SQ, DQ}

\* ch == "/" and nxt == "/"
StartsLineComment(ch, nxt) == ch = "/" /\ nxt = "/"

\* ch == "/" and nxt == "*"
StartsBlockComment(ch, nxt) == ch = "/" /\ nxt = "*"

\* ch == "*" and nxt == "/"
EndsBlockComment(ch, nxt) == ch = "*" /\ nxt = "/"

\* One iteration of the while loop, from a state s with s.i < len(text).
StripStep(t, s) ==
    LET n == Len(t)
        i == s.i
        ch == t[i + 1]
        nxt == IF i + 1 < n THEN t[i + 2] ELSE ""
    IN  IF s.in_line_comment THEN
            IF ch = NL
            THEN [s EXCEPT !.in_line_comment = FALSE,
                           !.out = Append(@, ch), !.i = i + 1]
            ELSE [s EXCEPT !.i = i + 1]
        ELSE IF s.in_block_comment THEN
            IF EndsBlockComment(ch, nxt)
            THEN [s EXCEPT !.in_block_comment = FALSE, !.i = i + 2]
            ELSE [s EXCEPT !.i = i + 1]
        ELSE IF s.in_str THEN
            IF ch = BS /\ i + 1 < n
            THEN [s EXCEPT !.out = Append(Append(@, ch), t[i + 2]),
                           !.i = i + 2]
            ELSE IF ch = s.str_ch
            THEN [s EXCEPT !.out = Append(@, ch), !.in_str = FALSE,
                           !.i = i + 1]
            ELSE [s EXCEPT !.out = Append(@, ch), !.i = i + 1]
        ELSE IF OpensString(ch)
        THEN [s EXCEPT !.in_str = TRUE, !.str_ch = ch,
                       !.out = Append(@, ch), !.i = i + 1]
        ELSE IF StartsLineComment(ch, nxt)
        THEN [s EXCEPT !.in_line_comment = TRUE, !.i = i + 2]
        ELSE IF StartsBlockComment(ch, nxt)
        THEN [s EXCEPT !.in_block_comment = TRUE, !.i = i + 2]
        ELSE [s EXCEPT !.out = Append(@, ch), !.i = i + 1]

\* `while i < n:` for at most k more iterations.  The iterations are split
\* in halves, the first half evaluated before the second starts (i never
\* exceeds n + 1), to keep the evaluation shallow on long texts.
RECURSIVE StripLoop(_, _, _)
StripLoop(t, s, k) ==
    IF k <= 1
    THEN (IF k = 1 /\ s.i < Len(t) THEN StripStep(t, s) ELSE s)
    ELSE LET half == StripLoop(t, s, k \div 2)
         IN  IF half.i <= Len(t) + 1 THEN StripLoop(t, half, k - (k \div 2))
             ELSE half

\* Every iteration advances i, so len(text) iterations reach i >= n.
StripComments(t) == StripLoop(t, StripInit, Len(t)).out

----------------------------------------------------------------------------
(* _count_braces_outside_strings *)

CountInit ==
    [i |-> 0, opens |-> 0, closes |-> 0, in_str |-> FALSE, str_ch |-> ""]

\* One iteration of the while loop, from a state s with s.i < len(line).
\* Inside a string, a character that is neither a backslash with a successor
\* nor the closing quote falls out of the `if in_str:` block into the tests
\* that follow it.
CountStep(l, s) ==
    LET i == s.i
        ch == l[i + 1]
    IN  IF s.in_str /\ ch = BS /\ i + 1 < Len(l)
        THEN [s EXCEPT !.i = i + 2]
        ELSE IF s.in_str /\ ch = s.str_ch
        THEN [s EXCEPT !.in_str = FALSE, !.i = i + 1]
        ELSE IF ch \in {SQ, DQ}
        THEN [s EXCEPT !.in_str = TRUE, !.str_ch = ch, !.i = i + 1]
        ELSE IF ch = "{"
        THEN [s EXCEPT !.opens = @ + 1, !.i = i + 1]
        ELSE IF ch = "}"
        THEN [s EXCEPT !.closes = @ + 1, !.i = i + 1]
        ELSE [s EXCEPT !.i = i + 1]

\* `while i < len(line):` for at most k more iterations.
RECURSIVE CountLoop(_, _, _)
CountLoop(l, s, k) ==
    IF k <= 1
    THEN (IF k = 1 /\ s.i < Len(l) THEN CountStep(l, s) ELSE s)
    ELSE LET half == CountLoop(l, s, k \div 2)
         IN  IF half.i <= Len(l) + 1 THEN CountLoop(l, half, k - (k \div 2))
             ELSE half

CountBraces(l) ==
    LET s == CountLoop(l, CountInit, Len(l)) IN <<s.opens, s.closes>>

----------------------------------------------------------------------------
(* str.splitlines, str.rstrip, str.strip('"'), re.sub(r"\s+", "", ...) *)

\* The characters of the model's alphabet that \s and rstrip() treat as space.
SpaceChars == {SP, TAB, NL, CR}

\* \w
WordChars ==
    {"0", "1", "2", "3", "4", "5", "6", "7", "8", "9", "_",
     "a", "b", "c", "d", "e", "f", "g", "h", "i", "j", "k", "l", "m",
     "n", "o", "p", "q", "r", "s", "t", "u", "v", "w", "x", "y", "z"}

\* [\w\-\.\@]
LabelChars == WordChars \cup {"-", ".", "@"}

\* [\w\-\.\,\@/]
NameChars == WordChars \cup {"-", ".", ",", "@", "/"}

\* splitlines(): a line ends at \n, \r or \r\n; a trailing line break does
\* not start another line.  LineEnds is the set of positions of the last
\* character of each line break.
LineEnds(t) ==
    {p \in 1..Len(t) :
        \/ t[p] = NL
        \/ t[p] = CR /\ ~(p < Len(t) /\ t[p + 1] = NL)}

\* Position of the k-th line break of t, 0 for k = 0.
LineEnd(t, k) ==
    IF k = 0 THEN 0
    ELSE CHOOSE p \in LineEnds(t) :
            Cardinality({q \in LineEnds(t) : q < p}) = k - 1

\* Length of the line break that ends at position p.
BreakLen(t, p) == IF t[p] = NL /\ p > 1 /\ t[p - 1] = CR THEN 2 ELSE 1

SplitLines(t) ==
    LET n == Cardinality(LineEnds(t))
        tail == IF LineEnd(t, n) < Len(t) THEN 1 ELSE 0
    IN  [k \in 1..(n + tail) |->
            IF k <= n
            THEN SubSeq(t, LineEnd(t, k - 1) + 1,
                        LineEnd(t, k) - BreakLen(t, LineEnd(t, k)))
            ELSE SubSeq(t, LineEnd(t, n) + 1, Len(t))]

\* "\n".join(ls)
RECURSIVE JoinLines(_)
JoinLines(ls) ==
    IF ls = <<>> THEN <<>>
    ELSE IF Len(ls) = 1 THEN ls[1]
    ELSE ls[1] \o <<NL>> \o JoinLines(Tail(ls))

RECURSIVE RStrip(_)
RStrip(l) ==
    IF l # <<>> /\ l[Len(l)] \in SpaceChars
    THEN RStrip(SubSeq(l, 1, Len(l) - 1))
    ELSE l

RECURSIVE LStripQuotes(_)
LStripQuotes(d) ==
    IF d # <<>> /\ Head(d) = DQ THEN LStripQuotes(Tail(d)) ELSE d

RECURSIVE RStripQuotes(_)
RStripQuotes(d) ==
    IF d # <<>> /\ d[Len(d)] = DQ
    THEN RStripQuotes(SubSeq(d, 1, Len(d) - 1))
    ELSE d

\* re.sub(r"\s+", "", d)
RECURSIVE RemoveSpace(_)
RemoveSpace(d) ==
    IF d = <<>> THEN <<>>
    ELSE IF Head(d) \in SpaceChars THEN RemoveSpace(Tail(d))
    ELSE <<Head(d)>> \o RemoveSpace(Tail(d))

\* re.sub(r"\s+", "", display.strip('"'))
DispNorm(display) == RemoveSpace(RStripQuotes(LStripQuotes(display)))

----------------------------------------------------------------------------
(* NODE_OPEN_RE *)

\* The position after the longest run of characters of S that starts at
\* position p of l (positions are 1-based; Len(l) + 1 is the end).
RunEnd(l, p, S) ==
    CHOOSE q \in p..(Len(l) + 1) :
        /\ \A k \in p..(q - 1) : l[k] \in S
        /\ q = Len(l) + 1 \/ l[q] \notin S

\* l has character c at position p.
At(l, p, c) == p <= Len(l) /\ l[p] = c

NoMatch == [matched |-> FALSE, label |-> <<>>, name |-> <<>>, end |-> 0]

\* The name alternatives: "/", "&" and label characters, or name characters;
\* a name is followed by optional space and "{".
NameCharsOfM(first) == IF first = "&" THEN LabelChars ELSE WordChars
NameCharsOf(first) == IF first = "&" THEN LabelChars ELSE NameChars

\* NODE_OPEN_RE.search(l).  The pattern starts with ^, so a match starts at
\* the first character; every quantifier is followed by a character outside
\* its class, so the longest runs are the only candidates.  A missing label
\* group is the empty text; end is the position of the matched "{".
NodeOpenSearch(l) ==
    LET p0 == RunEnd(l, 1, SpaceChars)
        labEnd == RunEnd(l, p0, LabelChars)
        colon == RunEnd(l, labEnd, SpaceChars)
        hasLabel == labEnd > p0 /\ At(l, colon, ":")
        q == IF hasLabel THEN RunEnd(l, colon + 1, SpaceChars) ELSE p0
        amp == At(l, q, "&")
        first == IF q <= Len(l) THEN l[q] ELSE ""
        r == IF amp THEN q + 1 ELSE q
        nameEnd == RunEnd(l, r, NameCharsOf(first))
        brace == RunEnd(l, nameEnd, SpaceChars)
    IN  IF nameEnd > r /\ At(l, brace, "{")
        THEN [matched |-> TRUE,
              label |-> IF hasLabel THEN SubSeq(l, p0, labEnd - 1) ELSE <<>>,
              name |-> SubSeq(l, q, nameEnd - 1),
              end |-> brace]
        ELSE NoMatch

----------------------------------------------------------------------------
(* sorted() of a set of strings *)

\* a < b for Python strings
RECURSIVE StrLess(_, _)
StrLess(a, b) ==
    IF b = <<>> THEN FALSE
    ELSE IF a = <<>> THEN TRUE
    ELSE IF Head(a) # Head(b) THEN Ord(Head(a)) < Ord(Head(b))
    ELSE StrLess(Tail(a), Tail(b))

RECURSIVE Sorted(_)
Sorted(S) ==
    IF S = {} THEN <<>>
    ELSE LET least == CHOOSE x \in S : \A y \in S \ {x} : StrLess(x, y)
         IN  <<least>> \o Sorted(S \ {least})

----------------------------------------------------------------------------
(* parse_dtsi_with_map *)

\* end_line of a node that is still open (Python None); line numbers start
\* at 1.
None == 0

\* f"N{node_index}"
NodeIdM(k) == <<"N", 0>>
NodeId(k) == <<"N", k>>

\* display = label if label else name
Display(m) == IF m.label # <<>> THEN m.label ELSE m.name

\* path = f"{parent_path}/{disp_norm}" if parent_path else f"/{disp_norm}"
NodePathM(parent_path, disp_norm) == <<"/">> \o disp_norm
NodePath(parent_path, disp_norm) ==
    IF parent_path # <<>>
    THEN parent_path \o <<"/">> \o disp_norm
    ELSE <<"/">> \o disp_norm

\* The local variables of the parse.
ParseInit ==
    [stack |-> <<>>, nodes |-> <<>>, edges |-> <<>>, paths |-> {},
     brace_depth |-> 0, node_index |-> 0, opens |-> 0, closes |-> 0,
     graph_lines |-> << [kind |-> "init"], [kind |-> "graph TD"] >>]

\* if stack: edges.append((stack[-1]["id"], node_id))
EdgesAfterOpenM(stk, edgs, node_id) ==
    Append(edgs, <<NodeId(Len(stk)), node_id>>)
EdgesAfterOpen(stk, edgs, node_id) ==
    IF stk # <<>>
    THEN Append(edgs, <<stk[Len(stk)].id, node_id>>)
    ELSE edgs

\* The branch `if m:` of the loop body, for line number i, stripped line l
\* and match m, c being the pair that _count_braces_outside_strings(line)
\* returns.
OpenNodeCounted(ps, i, l, m, c) ==
    LET label == m.label
        name == m.name
        display == Display(m)
        node_id == NodeId(ps.node_index)
        parent_path ==
            IF ps.stack # <<>> THEN ps.stack[Len(ps.stack)].path ELSE <<>>
        disp_norm == DispNorm(display)
        path == NodePath(parent_path, disp_norm)
        node == [label |-> label, name |-> name, display |-> display,
                 start_line |-> i, end_line |-> None, path |-> path]
        decl == <<[kind |-> "node", id |-> node_id, display |-> display]>>
        arrow == IF ps.stack # <<>>
                 THEN <<[kind |-> "edge", id |-> node_id,
                         parent_id |-> ps.stack[Len(ps.stack)].id]>>
                 ELSE <<>>
        click == <<[kind |-> "click", id |-> node_id, display |-> display]>>
        depth == ps.brace_depth + c[1] - c[2]
    IN  [ps EXCEPT
            !.node_index = @ + 1,
            !.paths = @ \cup {path},
            !.nodes = @ @@ (node_id :> node),
            !.graph_lines = @ \o decl \o arrow \o click,
            !.edges = EdgesAfterOpen(ps.stack, @, node_id),
            !.opens = c[1],
            !.closes = c[2],
            !.brace_depth = depth,
            !.stack = Append(@, [id |-> node_id, display |-> display,
                                 brace_depth_at_open |-> depth,
                                 path |-> path, start_line |-> i])]

OpenNode(ps, i, l, m) == OpenNodeCounted(ps, i, l, m, CountBraces(l))

\* The branch `else:` of the loop body, c as above.
SkipLineCounted(ps, c) ==
    [ps EXCEPT !.opens = c[1], !.closes = c[2],
               !.brace_depth = @ + c[1] - c[2]]

SkipLine(ps, l) == SkipLineCounted(ps, CountBraces(l))

\* brace_depth < top["brace_depth_at_open"]
ClosesTop(depth, top) == depth < top.brace_depth_at_open

\* nodes[nid]["end_line"] = line_no; stack.pop()
PopFrameM(ps, line_no) ==
    [ps EXCEPT !.nodes[ps.stack[Len(ps.stack)].id].end_line = line_no]
PopFrame(ps, line_no) ==
    [ps EXCEPT !.nodes[ps.stack[Len(ps.stack)].id].end_line = line_no,
               !.stack = SubSeq(@, 1, Len(@) - 1)]

\* The `while stack:` loop that ends the loop body.
RECURSIVE CloseFramesM(_, _)
CloseFramesM(ps, i) ==
    IF ps.stack # <<>> /\ ClosesTop(ps.brace_depth, ps.stack[Len(ps.stack)])
    THEN CloseFramesM(
            [ps EXCEPT !.nodes[ps.stack[Len(ps.stack)].id].end_line =
                           ps.stack[Len(ps.stack)].start_line,
                       !.stack = SubSeq(@, 1, Len(@) - 1)], i)
    ELSE ps
RECURSIVE CloseFrames(_, _)
CloseFrames(ps, i) ==
    IF ps.stack # <<>> /\ ClosesTop(ps.brace_depth, ps.stack[Len(ps.stack)])
    THEN CloseFrames(
            [ps EXCEPT !.nodes[ps.stack[Len(ps.stack)].id].end_line = i,
                       !.stack = SubSeq(@, 1, Len(@) - 1)], i)
    ELSE ps

\* One iteration of `for idx, raw_line in enumerate(lines, start=1)`.
LineStep(ps, i, raw_line) ==
    LET l == RStrip(raw_line)
        m == NodeOpenSearch(l)
    IN  CloseFrames(IF m.matched THEN OpenNode(ps, i, l, m)
                    ELSE SkipLine(ps, l), i)

\* `while stack:` of the end-of-input block.
RECURSIVE PopAll(_, _)
PopAllM(ps, last_line) ==
    IF ps.stack # <<>>
    THEN [ps EXCEPT
             !.nodes[ps.stack[Len(ps.stack)].id].end_line = last_line,
             !.stack = SubSeq(@, 1, Len(@) - 1)]
    ELSE ps
PopAll(ps, last_line) ==
    IF ps.stack # <<>>
    THEN PopAll([ps EXCEPT
                    !.nodes[ps.stack[Len(ps.stack)].id].end_line = last_line,
                    !.stack = SubSeq(@, 1, Len(@) - 1)], last_line)
    ELSE ps

\* if lines: last_line = len(lines); while stack: ...
ForceCloseM(ps, ls) == [ps EXCEPT !.stack = <<>>]
ForceClose(ps, ls) ==
    IF ls # <<>> THEN PopAll(ps, Len(ls)) ELSE ps

\* The returned dictionary; mermaid_code is kept as the sequence of entries
\* that "\n".join writes out.
ParseResult(ps) ==
    [mermaid_code |-> ps.graph_lines, nodes |-> ps.nodes,
     edges |-> ps.edges, paths |-> Sorted(ps.paths)]

RECURSIVE ParseLoop(_, _, _)
ParseLoop(ps, ls, i) ==
    IF i < Len(ls) THEN ParseLoop(LineStep(ps, i + 1, ls[i + 1]), ls, i + 1)
    ELSE ps

ParseDtsiWithMap(c) ==
    LET ls == SplitLines(StripComments(c))
    IN  ParseResult(ForceClose(ParseLoop(ParseInit, ls, 0), ls))

\* parse_dtsi_structure
ParseDtsiStructure(c) ==
    LET data == ParseDtsiWithMap(c)
    IN  [paths |-> {data.paths[k] : k \in 1..Len(data.paths)},
         nodes |-> data.nodes]

----------------------------------------------------------------------------
(* diff_view: structure diff *)

\* added_nodes = sorted(list(sb - sa)); removed_nodes = sorted(list(sa - sb))
StructureDiffM(pa, pb) ==
    [added_nodes |-> Sorted(pa \ pb), removed_nodes |-> Sorted(pb \ pa)]
StructureDiff(pa, pb) ==
    [added_nodes |-> Sorted(pb \ pa), removed_nodes |-> Sorted(pa \ pb)]

\* parse_dtsi_structure("\n".join(read_text().splitlines()))["paths"]
FilePaths(f) == ParseDtsiStructure(JoinLines(SplitLines(f))).paths

----------------------------------------------------------------------------
(* parse_overview_mermaid *)

\* path.split("/")
RECURSIVE SplitSlash(_)
SplitSlash(path) ==
    IF \A k \in 1..Len(path) : path[k] # "/" THEN <<path>>
    ELSE LET k == CHOOSE j \in 1..Len(path) :
                      path[j] = "/" /\ \A h \in 1..(j - 1) : path[h] # "/"
         IN  <<SubSeq(path, 1, k - 1)>> \o SplitSlash(Drop(path, k))

NonEmpty(p) == p # <<>>

\* parts = [p for p in path.split("/") if p]
PathParts(path) == SelectSeq(SplitSlash(path), NonEmpty)

\* The None that the two functions below return; no part is empty, so the
\* empty text stands for it.
NoName == <<>>

\* _top_name_from_path
TopNameFromPath(path) ==
    IF PathParts(path) # <<>> THEN PathParts(path)[1] ELSE NoName

\* _second_name_from_path
SecondNameFromPath(path) ==
    IF Len(PathParts(path)) > 1 THEN PathParts(path)[2] ELSE NoName

NameSoc == << "s", "o", "c" >>

\* d[key] = d.get(key, 0) + 1
Increment(d, key) ==
    IF key \in DOMAIN d THEN [d EXCEPT ![key] = @ + 1]
    ELSE [k \in DOMAIN d \cup {key} |-> IF k = key THEN 1 ELSE d[k]]

NoChildren == [k \in {} |-> 0]

\* The body of `for p in paths:`.
CountPath(acc, p) ==
    LET top == TopNameFromPath(p)
        second == SecondNameFromPath(p)
    IN  IF top = NoName THEN acc
        ELSE [root_children |-> Increment(acc.root_children, top),
              soc_children |->
                  IF top = NameSoc /\ second # NoName
                  THEN Increment(acc.soc_children, second)
                  ELSE acc.soc_children]

RECURSIVE CountPaths(_, _, _)
CountPaths(acc, ps, k) ==
    IF k < Len(ps) THEN CountPaths(CountPath(acc, ps[k + 1]), ps, k + 1)
    ELSE acc

\* key=lambda kv: (-kv[1], kv[0])
ItemLess(a, b) == a[2] > b[2] \/ (a[2] = b[2] /\ StrLess(a[1], b[1]))

RECURSIVE SortItems(_)
SortItems(S) ==
    IF S = {} THEN <<>>
    ELSE LET least == CHOOSE x \in S : \A y \in S \ {x} : ItemLess(x, y)
         IN  <<least>> \o SortItems(S \ {least})

\* sorted(d.items(), key=...)
SortedItems(d) == SortItems({<<k, d[k]>> : k \in DOMAIN d})

\* q[:n]
TakeM(q, n) == q
Take(q, n) ==
    IF n >= 0 THEN SubSeq(q, 1, IF n < Len(q) THEN n ELSE Len(q))
    ELSE SubSeq(q, 1, IF Len(q) + n > 0 THEN Len(q) + n ELSE 0)

\* re.sub(r'[^a-zA-Z0-9_]', '_', name)
Sanitize(name) ==
    [k \in 1..Len(name) |-> IF name[k] \in WordChars THEN name[k] ELSE "_"]

RootId(name) == <<"R", Sanitize(name)>>
SocId(name) == <<"SOC", Sanitize(name)>>
IdRoot == <<"ROOT">>
IdSoc == <<"SOC">>
IdRSoc == <<"R", NameSoc>>

\* The two lines appended for each entry of root_sorted.
RECURSIVE RootHubLines(_, _)
RootHubLines(items, k) ==
    IF k < Len(items)
    THEN << [kind |-> "node", id |-> RootId(items[k + 1][1]),
             name |-> items[k + 1][1], count |-> items[k + 1][2]],
            [kind |-> "edge", from |-> IdRoot,
             to |-> RootId(items[k + 1][1])] >>
         \o RootHubLines(items, k + 1)
    ELSE <<>>

\* The lines of the soc subgraph.
SocLines(root_children, items) ==
    IF NameSoc \in DOMAIN root_children /\ items # <<>>
    THEN << [kind |-> "subgraph", id |-> IdSoc] >>
         \o [k \in 1..Len(items) |->
                [kind |-> "node", id |-> SocId(items[k][1]),
                 name |-> items[k][1], count |-> items[k][2]]]
         \o << [kind |-> "end"],
               [kind |-> "edge", from |-> IdRSoc, to |-> IdSoc] >>
         \o [k \in 1..Len(items) |->
                [kind |-> "edge", from |-> IdSoc,
                 to |-> SocId(items[k][1])]]
    ELSE <<>>

OverviewHeader ==
    << [kind |-> "init"], [kind |-> "flowchart LR"],
       [kind |-> "node", id |-> IdRoot, name |-> <<"/">>, count |-> None] >>

\* parse_overview_mermaid; the diagram is kept as the sequence of entries
\* that "\n".join writes out, next to the two rankings it is drawn from.
ParseOverviewMermaid(c, max_root, max_soc) ==
    LET counts == CountPaths([root_children |-> NoChildren,
                              soc_children |-> NoChildren],
                             ParseDtsiWithMap(c).paths, 0)
        root_items == Take(SortedItems(counts.root_children), max_root)
        soc_items == Take(SortedItems(counts.soc_children), max_soc)
    IN  [root_sorted |-> root_items,
         soc_sorted |-> soc_items,
         lines |-> OverviewHeader \o RootHubLines(root_items, 0)
                   \o SocLines(counts.root_children, soc_items)]

----------------------------------------------------------------------------
(* extract_idle_info, parse_idle_mermaid *)

\* t has the text w at position p.
Lit(t, p, w) == p + Len(w) - 1 <= Len(t) /\ SubSeq(t, p, p + Len(w) - 1) = w

\* w in t
Contains(t, w) == \E p \in 1..(Len(t) - Len(w) + 1) : Lit(t, p, w)

DigitSeq == << "0", "1", "2", "3", "4", "5", "6", "7", "8", "9" >>

Digits == {DigitSeq[k] : k \in 1..10}

\* int(...) of a run of digits
RECURSIVE ToInt(_)
ToInt(ds) ==
    IF ds = <<>> THEN 0
    ELSE 10 * ToInt(SubSeq(ds, 1, Len(ds) - 1))
         + (CHOOSE v \in 0..9 : DigitSeq[v + 1] = ds[Len(ds)])

\* sorted() of a set of integers
RECURSIVE SortedInts(_)
SortedInts(S) ==
    IF S = {} THEN <<>>
    ELSE LET least == CHOOSE x \in S : \A y \in S : x <= y
         IN  <<least>> \o SortedInts(S \ {least})

\* \b in front of a word character at position p
WordStart(t, p) == p = 1 \/ t[p - 1] \notin WordChars

TxtCpu ==
    << "c", "p", "u" >>
TxtCpuAt ==
    << "c", "p", "u", "@" >>
TxtCpuPd ==
    << "c", "p", "u", "_", "p", "d" >>
TxtPowerDomainCpu ==
    << "p", "o", "w", "e", "r", "-", "d", "o", "m", "a", "i", "n", "-",
       "c", "p", "u" >>
TxtCpuSleep ==
    << "c", "p", "u", "_", "s", "l", "e", "e", "p" >>
TxtClusterSleep ==
    << "c", "l", "u", "s", "t", "e", "r", "_", "s", "l", "e", "e", "p" >>
TxtPsciParam ==
    << "a", "r", "m", ",", "p", "s", "c", "i", "-", "s", "u", "s", "p",
       "e", "n", "d", "-", "p", "a", "r", "a", "m" >>
TxtDomainIdleStates ==
    << "d", "o", "m", "a", "i", "n", "-", "i", "d", "l", "e", "-", "s",
       "t", "a", "t", "e", "s" >>
TxtIdleStates ==
    << "i", "d", "l", "e", "-", "s", "t", "a", "t", "e", "s" >>
TxtClusterPdColon ==
    << "c", "l", "u", "s", "t", "e", "r", "_", "p", "d", ":" >>
TxtMpm ==
    << "m", "p", "m" >>
TxtInterruptController ==
    << "i", "n", "t", "e", "r", "r", "u", "p", "t", "-", "c", "o", "n",
       "t", "r", "o", "l", "l", "e", "r" >>
TxtBlockClose ==
    << "}", ";" >>

\* A match at position p of \b<label>(?P<idx>\d+)\s*:\s*<name>\d+\s*\{ ;
\* the record says whether there is one and gives the digits of idx.
IndexedLabelAt(t, p, label, name) ==
    LET d == p + Len(label)
        e == RunEnd(t, d, Digits)
        c == RunEnd(t, e, SpaceChars)
        n == RunEnd(t, c + 1, SpaceChars)
        f == n + Len(name)
        g == RunEnd(t, f, Digits)
        b == RunEnd(t, g, SpaceChars)
    IN  [matched |-> /\ Lit(t, p, label) /\ WordStart(t, p) /\ e > d
                     /\ At(t, c, ":") /\ Lit(t, n, name) /\ g > f
                     /\ At(t, b, "{"),
         idx |-> IF Lit(t, p, label) THEN SubSeq(t, d, e - 1) ELSE <<>>]

\* {int(m.group("idx")) for m in RE.finditer(clean)}; two matches of one of
\* these expressions never overlap, so finditer yields every match.
IndexSet(t, label, name) ==
    {ToInt(IndexedLabelAt(t, p, label, name).idx) :
        p \in {q \in 1..Len(t) : IndexedLabelAt(t, q, label, name).matched}}

\* _CPU_LABEL_RE
CpuLabelIdxs(t) == IndexSet(t, TxtCpu, TxtCpuAt)

\* _CPU_PD_RE
CpuPdIdxs(t) == IndexSet(t, TxtCpuPd, TxtPowerDomainCpu)

\* [\w\-@\.]
BlockNameChars == WordChars \cup {"-", "@", "."}

\* \n\s*\}; at position q
BlockCloseAt(t, q) ==
    At(t, q, NL) /\ Lit(t, RunEnd(t, q + 1, SpaceChars), TxtBlockClose)

\* A match of _IDLE_BLOCK_RE at position p with the given label: the body
\* runs to the first newline that \s*\}; follows.
IdleBlockAt(t, p, label) ==
    LET c == RunEnd(t, p + Len(label), SpaceChars)
        n == RunEnd(t, c + 1, SpaceChars)
        e == RunEnd(t, n, BlockNameChars)
        b == RunEnd(t, e, SpaceChars)
        head == /\ Lit(t, p, label) /\ At(t, c, ":") /\ e > n
                /\ At(t, b, "{")
        ok == head /\ \E q \in (b + 1)..Len(t) : BlockCloseAt(t, q)
        q == CHOOSE j \in (b + 1)..Len(t) :
                 BlockCloseAt(t, j)
                 /\ \A h \in (b + 1)..(j - 1) : ~BlockCloseAt(t, h)
    IN  [matched |-> ok,
         label |-> label,
         body |-> IF ok THEN SubSeq(t, b + 1, q - 1) ELSE <<>>,
         end |-> IF ok THEN RunEnd(t, q + 1, SpaceChars) + 2 ELSE 0]

\* The alternation (?P<label>cpu_sleep|cluster_sleep) at position p.
IdleBlockMatch(t, p) ==
    IF IdleBlockAt(t, p, TxtCpuSleep).matched
    THEN IdleBlockAt(t, p, TxtCpuSleep)
    ELSE IdleBlockAt(t, p, TxtClusterSleep)

\* _IDLE_BLOCK_RE.finditer(clean), from position pos on
RECURSIVE IdleBlocks(_, _)
IdleBlocks(t, pos) ==
    LET starts == {p \in pos..Len(t) : IdleBlockMatch(t, p).matched}
    IN  IF starts = {} THEN <<>>
        ELSE LET p == CHOOSE x \in starts : \A y \in starts : x <= y
             IN  <<IdleBlockMatch(t, p)>>
                 \o IdleBlocks(t, IdleBlockMatch(t, p).end)

\* A match of _PSCI_PARAM_RE at position p of the body.
PsciParamAt(body, p) ==
    LET e == RunEnd(body, p + Len(TxtPsciParam), SpaceChars)
        a == RunEnd(body, e + 1, SpaceChars)
        v == RunEnd(body, a + 1, {body[k] : k \in 1..Len(body)} \ {">"})
        s == RunEnd(body, v + 1, SpaceChars)
    IN  [matched |-> /\ Lit(body, p, TxtPsciParam) /\ At(body, e, "=")
                     /\ At(body, a, "<") /\ v > a + 1 /\ At(body, v, ">")
                     /\ At(body, s, ";"),
         val |-> IF Lit(body, p, TxtPsciParam) /\ At(body, e, "=")
                    /\ At(body, a, "<")
                 THEN SubSeq(body, a + 1, v - 1) ELSE <<>>]

\* _PSCI_PARAM_RE.search(body)
PsciParamSearch(body) ==
    LET starts == {p \in 1..Len(body) : PsciParamAt(body, p).matched}
    IN  IF starts = {} THEN [matched |-> FALSE, val |-> <<>>]
        ELSE PsciParamAt(body, CHOOSE x \in starts : \A y \in starts : x <= y)

RECURSIVE LStrip(_)
LStrip(s) ==
    IF s # <<>> /\ Head(s) \in SpaceChars THEN LStrip(Tail(s)) ELSE s

\* str.strip()
Strip(s) == LStrip(RStrip(s))

\* A parameter is None or a text, which may be empty.
NoParam == [some |-> FALSE, val |-> <<>>]

Param(v) == [some |-> TRUE, val |-> Strip(v)]

\* bool(p) of a parameter
Truthy(p) == p.some /\ p.val # <<>>

\* The body of `for m in _IDLE_BLOCK_RE.finditer(clean):`.
AssignParam(acc, m) ==
    LET pm == PsciParamSearch(m.body)
    IN  IF ~pm.matched THEN acc
        ELSE IF m.label = TxtCpuSleep
        THEN [acc EXCEPT !.cpu_sleep_param = Param(pm.val)]
        ELSE [acc EXCEPT !.cluster_sleep_param = Param(pm.val)]

RECURSIVE AssignParams(_, _, _)
AssignParams(acc, blocks, k) ==
    IF k < Len(blocks)
    THEN AssignParams(AssignParam(acc, blocks[k + 1]), blocks, k + 1)
    ELSE acc

\* re.search(r"\bmpm\s*:\s*interrupt-controller", clean) is not None
HasMpm(t) ==
    \E p \in 1..Len(t) :
        /\ Lit(t, p, TxtMpm) /\ WordStart(t, p)
        /\ At(t, RunEnd(t, p + 3, SpaceChars), ":")
        /\ Lit(t, RunEnd(t, RunEnd(t, p + 3, SpaceChars) + 1, SpaceChars),
               TxtInterruptController)

\* "domain-idle-states" not in clean and "idle-states" not in clean
NoIdleMarker(clean) ==
    ~Contains(clean, TxtDomainIdleStates) /\ ~Contains(clean, TxtIdleStates)

\* cpu_idxs if cpu_idxs else [0, 1, 2, 3]
IdxsOrDefaultM(idxs) == idxs
IdxsOrDefault(idxs) == IF idxs # <<>> THEN idxs ELSE <<0, 1, 2, 3>>

\* bool(cpu_sleep_param or cluster_sleep_param or
\*      (cpu_idxs and has_cluster_pd))
FoundM(params, cpu_idxs, has_cluster_pd) ==
    \/ Truthy(params.cpu_sleep_param)
    \/ Truthy(params.cluster_sleep_param)
    \/ (IdxsOrDefault(cpu_idxs) # <<>> /\ has_cluster_pd)
Found(params, cpu_idxs, has_cluster_pd) ==
    \/ Truthy(params.cpu_sleep_param)
    \/ Truthy(params.cluster_sleep_param)
    \/ (cpu_idxs # <<>> /\ has_cluster_pd)

\* extract_idle_info from its second statement on.
IdleInfoOf(clean) ==
    LET cpu_idxs == SortedInts(CpuLabelIdxs(clean))
        pd_idxs == SortedInts(CpuPdIdxs(clean))
        params == AssignParams([cpu_sleep_param |-> NoParam,
                                cluster_sleep_param |-> NoParam],
                               IdleBlocks(clean, 1), 0)
        has_cluster_pd == Contains(clean, TxtClusterPdColon)
    IN  IF NoIdleMarker(clean) THEN [found |-> FALSE]
        ELSE [found |-> Found(params, cpu_idxs, has_cluster_pd),
              cpu_idxs |-> IdxsOrDefault(cpu_idxs),
              pd_idxs |-> IdxsOrDefault(pd_idxs),
              cpu_sleep_param |-> params.cpu_sleep_param,
              cluster_sleep_param |-> params.cluster_sleep_param,
              has_cluster_pd |-> has_cluster_pd,
              has_mpm |-> HasMpm(clean)]

\* extract_idle_info: clean = _strip_comments(content), then the rest.
ExtractIdleInfoM(c) == IdleInfoOf(c)
ExtractIdleInfo(c) == IdleInfoOf(StripComments(c))

\* The one-character text (an em dash, U+2014, written "emdash" here) that
\* stands for a parameter that is None or empty.
NoParamText == << "emdash" >>

\* info.get("cpu_sleep_param") or NoParamText
ParamText(p) == IF Truthy(p) THEN p.val ELSE NoParamText

\* The number of CPUs and of power domains that the diagram shows.
DiagramIdxs == 8

CpuId(i) == <<"CPU", i>>
PdId(i) == <<"PD", i>>
IdCpuIdle == <<"CPU_IDLE">>
IdClusterIdle == <<"CLUSTER_IDLE">>
IdClusterPd == <<"CLUSTER_PD">>
IdMpm == <<"MPM">>

\* lines.append(f"  CPU{i} --> PD{i}" if i in pd_idxs[:8]
\*              else f"  CPU{i} --> CPU_IDLE")
CpuEdgeM(i, pds) == [kind |-> "edge", from |-> CpuId(i), to |-> PdId(i)]
CpuEdge(i, pds) ==
    [kind |-> "edge", from |-> CpuId(i),
     to |-> IF \E k \in 1..Len(pds) : pds[k] = i THEN PdId(i)
            ELSE IdCpuIdle]

\* The diagram of parse_idle_mermaid for a record with found = True, kept as
\* the sequence of entries that "\n".join writes out.
IdleDiagram(rec) ==
    LET cpus == Take(rec.cpu_idxs, DiagramIdxs)
        pds == Take(rec.pd_idxs, DiagramIdxs)
    IN  << [kind |-> "init"], [kind |-> "flowchart TB"],
           [kind |-> "subgraph", id |-> <<"CPU_Layer">>] >>
        \o [k \in 1..Len(cpus) |-> [kind |-> "node", id |-> CpuId(cpus[k])]]
        \o << [kind |-> "end"],
              [kind |-> "node", id |-> IdCpuIdle,
               psci |-> ParamText(rec.cpu_sleep_param)],
              [kind |-> "subgraph", id |-> <<"CPU_PD">>] >>
        \o [k \in 1..Len(pds) |-> [kind |-> "node", id |-> PdId(pds[k])]]
        \o << [kind |-> "end"],
              [kind |-> "node", id |-> IdClusterIdle,
               psci |-> ParamText(rec.cluster_sleep_param)],
              [kind |-> "node", id |-> IdClusterPd],
              [kind |-> "node", id |-> IdMpm] >>
        \o [k \in 1..Len(cpus) |-> CpuEdge(cpus[k], pds)]
        \o [k \in 1..Len(pds) |->
               [kind |-> "edge", from |-> PdId(pds[k]), to |-> IdCpuIdle]]
        \o << [kind |-> "edge", from |-> IdCpuIdle, to |-> IdClusterIdle],
              [kind |-> "edge", from |-> IdClusterIdle, to |-> IdClusterPd],
              [kind |-> "edge", from |-> IdClusterPd, to |-> IdMpm] >>

\* The empty text that parse_idle_mermaid returns when nothing was found.
EmptyDiagram == <<>>

\* if not info.get("found"): return ""; else the diagram
DiagramOf(rec) == IF ~rec.found THEN EmptyDiagram ELSE IdleDiagram(rec)

\* parse_idle_mermaid
ParseIdleMermaid(c) == DiagramOf(ExtractIdleInfo(c))

-----------------------------------------------------------------------------
(* Clone status stores: git_service.py (STATE, update_state) and app.py *)
(* (STATE, _state).  Each of the two programs has one store; name -> entry. *)

Statuses == {"idle", "cloning", "ready", "error"}

\* {"status": "idle", "percent": 0, "log": ""}
DefaultState == [status |-> "idle", percent |-> 0, log |-> <<>>]

\* git_service.get_state, and STATE.get(name, {...}) of app.py
GetState(S, name) == IF name \in DOMAIN S THEN S[name] ELSE DefaultState

\* git_service.update_state: the entry is replaced
UpdateState(S, name, status, percent, log) ==
    [n \in DOMAIN S \cup {name} |->
        IF n = name
        THEN [status |-> status, percent |-> percent, log |-> log]
        ELSE S[n]]

\* app._state: the fields named in updates are replaced, the others kept.
\* The entry is read and written on one dictionary object, and every first
\* write of a project stores the same three fields, so the interleavings of
\* two calls give the results of the calls made one after the other.
StateUpdate(S, name, updates) ==
    [n \in DOMAIN S \cup {name} |->
        IF n = name
        THEN [f \in {"status", "percent", "log"} |->
                IF f \in DOMAIN updates THEN updates[f]
                ELSE GetState(S, name)[f]]
        ELSE S[n]]

NoGroup == [matched |-> FALSE, group |-> <<>>]

\* (\d{1,3})% matches at p with k digits
PercentAt(l, p, k) ==
    /\ p + k <= Len(l)
    /\ \A j \in p..(p + k - 1) : l[j] \in Digits
    /\ l[p + k] = "%"

\* re.search(r'(\d{1,3})%', line): the leftmost match and its group 1
PercentSearch(l) ==
    IF \E p \in 1..Len(l) : \E k \in 1..3 : PercentAt(l, p, k)
    THEN LET p == CHOOSE q \in 1..Len(l) :
                     /\ \E k \in 1..3 : PercentAt(l, q, k)
                     /\ \A r \in 1..(q - 1) : \A k \in 1..3 : ~PercentAt(l, r, k)
             k == CHOOSE j \in 1..3 : PercentAt(l, p, j)
         IN  [matched |-> TRUE, group |-> SubSeq(l, p, p + k - 1)]
    ELSE NoGroup

TxtReceivingObjects ==
    << "R", "e", "c", "e", "i", "v", "i", "n", "g", " ", "o", "b", "j", "e",
      "c", "t", "s" >>
TxtReceivingObjectsLower ==
    << "r", "e", "c", "e", "i", "v", "i", "n", "g", " ", "o", "b", "j", "e",
      "c", "t", "s" >>
TxtResolvingDeltas ==
    << "R", "e", "s", "o", "l", "v", "i", "n", "g", " ", "d", "e", "l", "t",
      "a", "s" >>
TxtResolvingDeltasLower ==
    << "r", "e", "s", "o", "l", "v", "i", "n", "g", " ", "d", "e", "l", "t",
      "a", "s" >>
TxtUpdatingFiles ==
    << "U", "p", "d", "a", "t", "i", "n", "g", " ", "f", "i", "l", "e", "s" >>

\* ([Rr]eceiving objects|[Rr]esolving deltas|Updating files)
ProgressWords ==
    {TxtReceivingObjects, TxtReceivingObjectsLower, TxtResolvingDeltas,
     TxtResolvingDeltasLower, TxtUpdatingFiles}

\* (\\d{1,3})% of the raw string: a backslash, one to three letters d and a
\* percent sign; k letters at q
EscapedAt(l, q, k) ==
    /\ q + k + 1 <= Len(l)
    /\ l[q] = "\\"
    /\ \A j \in (q + 1)..(q + k) : l[j] = "d"
    /\ l[q + k + 1] = "%"

\* The pattern of _run_clone matches with the word at p and group 2 at q;
\* .*? passes no newline.
ProgressAt(l, p, q) ==
    /\ \E w \in ProgressWords : Lit(l, p, w) /\ q >= p + Len(w)
    /\ \E k \in 1..3 : EscapedAt(l, q, k)
    /\ \A j \in p..(q - 1) : l[j] # NL

\* re.search of that pattern: the leftmost word, then the nearest group 2
ProgressSearch(l) ==
    IF \E p, q \in 1..Len(l) : ProgressAt(l, p, q)
    THEN LET p == CHOOSE r \in 1..Len(l) :
                     /\ \E q \in 1..Len(l) : ProgressAt(l, r, q)
                     /\ \A s \in 1..(r - 1) : \A q \in 1..Len(l) :
                            ~ProgressAt(l, s, q)
             q == CHOOSE r \in 1..Len(l) :
                     /\ ProgressAt(l, p, r)
                     /\ \A s \in 1..(r - 1) : ~ProgressAt(l, p, s)
             k == CHOOSE j \in 1..3 : EscapedAt(l, q, j)
         IN  [matched |-> TRUE, group |-> SubSeq(l, q, q + k)]
    ELSE NoGroup

\* int(s) of a group: a value for a run of digits, ValueError for a text
\* with any other character (the groups hold no sign, space or underscore)
IntOf(s) ==
    IF s # <<>> /\ \A j \in 1..Len(s) : s[j] \in Digits
    THEN [ok |-> TRUE, val |-> ToInt(s)]
    ELSE [ok |-> FALSE, val |-> 0]

Max(a, b) == IF a >= b THEN a ELSE b
Min(a, b) == IF a <= b THEN a ELSE b

TxtStarting ==
    << "S", "t", "a", "r", "t", "i", "n", "g", ".", ".", "." >>
TxtReady ==
    << "R", "e", "a", "d", "y" >>
TxtGitError ==
    << "G", "i", "t", " ", "E", "r", "r", "o", "r" >>
\* str(log_file)
TxtCloneLog ==
    << "c", "l", "o", "n", "e", ".", "l", "o", "g" >>
\* str(e) of open(log_file, "w")
TxtOpenFails ==
    << "[", "E", "r", "r", "n", "o", " ", "1", "3", "]", " ", "P", "e", "r",
      "m", "i", "s", "s", "i", "o", "n", " ", "d", "e", "n", "i", "e", "d" >>
\* str(e) of run_git
TxtGitFails ==
    << "r", "e", "t", "u", "r", "n", "e", "d", " ", "n", "o", "n", "-", "z",
      "e", "r", "o", " ", "e", "x", "i", "t", " ", "s", "t", "a", "t", "u",
      "s", " ", "1", "2", "8", "." >>
\* str(e) of subprocess.Popen
TxtPopenFails ==
    << "[", "E", "r", "r", "n", "o", " ", "2", "]", " ", "N", "o", " ", "s",
      "u", "c", "h", " ", "f", "i", "l", "e", " ", "o", "r", " ", "d", "i",
      "r", "e", "c", "t", "o", "r", "y", ":", " ", "'", "g", "i", "t", "'" >>

\* The steps of run_sparse_checkout between the first update_state and the
\* reading of the output; each can raise.
SetupSteps == << "open", "init", "remote", "config", "sparse", "popen" >>

StepNo(s) == CHOOSE k \in 1..Len(SetupSteps) : SetupSteps[k] = s

\* run_git is called on a fresh directory only
SetupOutcomes(fresh) ==
    IF fresh THEN {"ok"} \cup {SetupSteps[k] : k \in 1..Len(SetupSteps)}
    ELSE {"ok", "open", "popen"}

\* str(e)
ErrorText(s) ==
    IF s = "open" THEN TxtOpenFails
    ELSE IF s = "popen" THEN TxtPopenFails
    ELSE TxtGitFails

----------------------------------------------------------------------------
(* Inputs *)

MaxStripLen == 5
MaxCountLen == 5
MaxLines == 3
MaxDiffLines == 3

StripAlphabet == {"/", "*", DQ, SQ, BS, NL, "a"}
CountAlphabet == {DQ, SQ, BS, "{", "}", "a"}

LineScenario1 ==
    << "c", "p", "u", "s", SP, "{", SP, "c", "p", "u", "0", ":", SP,
       "c", "p", "u", "@", "0", SP, "{", SP, "}", ";", SP, "}", ";" >>

LineCpus ==
    << "c", "p", "u", "s", SP, "{" >>

LineCpu0 ==
    << SP, SP, "c", "p", "u", "0", ":", SP, "c", "p", "u", "@", "0", SP,
       "{", SP, "}", ";" >>

LineClose ==
    << "}", ";" >>

LineComment ==
    << "/", "/", SP, "c", "o", "m", "m", "e", "n", "t" >>

LineQuoted ==
    << DQ, "{", "n", "o", "t", SP, "a", SP, "b", "r", "a", "c", "e",
       "}", DQ >>

LineFoo ==
    << "f", "o", "o", SP, "{", SP, "}", ";" >>

LineBlockOpen ==
    << "/", "*", SP, "g", "c", "c", SP, "{" >>

LineBlockClose ==
    << "*", "/" >>

LineSoc ==
    << "s", "o", "c", SP, "{" >>

LineGcc ==
    << "g", "c", "c", SP, "{" >>

LinePool ==
    {LineScenario1, LineCpus, LineCpu0, LineClose, LineComment, LineQuoted,
     LineFoo, LineBlockOpen, LineBlockClose}

DiffLinePool == {LineSoc, LineGcc, LineClose}

LineRoot ==
    << "/", " ", "{" >>

MaxOverviewLines == 4

\* The defaults of max_root_children and max_soc_children.
DefaultMaxRootChildren == 18
DefaultMaxSocChildren == 18

OverviewLinePool == {LineRoot, LineSoc, LineGcc, LineCpus, LineClose}
RootCaps == {1, 2, DefaultMaxRootChildren}
SocCaps == {1, 2, DefaultMaxSocChildren}

LineIdleStates ==
    << "i", "d", "l", "e", "-", "s", "t", "a", "t", "e", "s", " ", "{" >>

LineDomainIdleStates ==
    << "d", "o", "m", "a", "i", "n", "-", "i", "d", "l", "e", "-", "s",
       "t", "a", "t", "e", "s", " ", "{" >>

LineMarkerComment ==
    << "/", "/", " ", "i", "d", "l", "e", "-", "s", "t", "a", "t", "e",
       "s" >>

LineClusterPd ==
    << "c", "l", "u", "s", "t", "e", "r", "_", "p", "d", ":", " ", "d",
       " ", "{" >>

LineCpuSleep ==
    << "c", "p", "u", "_", "s", "l", "e", "e", "p", ":", " ", "s", " ",
       "{" >>

LineClusterSleep ==
    << "c", "l", "u", "s", "t", "e", "r", "_", "s", "l", "e", "e", "p",
       ":", " ", "s", " ", "{" >>

LineParam ==
    << "a", "r", "m", ",", "p", "s", "c", "i", "-", "s", "u", "s", "p",
       "e", "n", "d", "-", "p", "a", "r", "a", "m", " ", "=", " ", "<",
       " ", "0", "x", "4", "0", "0", "0", "0", "0", "0", "4", " ", ">",
       ";" >>

LineBlankParam ==
    << "a", "r", "m", ",", "p", "s", "c", "i", "-", "s", "u", "s", "p",
       "e", "n", "d", "-", "p", "a", "r", "a", "m", " ", "=", " ", "<",
       " ", ">", ";" >>

LineCpuSleepEmpty ==
    << "c", "p", "u", "_", "s", "l", "e", "e", "p", ":", " ", "s", " ",
       "{", " ", "}", ";" >>

MaxIdleParts == 3

\* The first line of an idle text, if any: a marker, or a marker in a comment.
IdleMarkers ==
    {<<>>, <<LineIdleStates>>, <<LineDomainIdleStates>>, <<LineMarkerComment>>}

\* A parameter line and the line that closes the block.
ParamThenClose == JoinLines(<<LineParam, LineClose>>)
BlankParamThenClose == JoinLines(<<LineBlankParam, LineClose>>)

\* The parts an idle text is made of after its first line.
IdlePartPool ==
    {LineCpu0, LineClusterPd, LineCpuSleep, LineClusterSleep, LineParam,
     LineClose, LineCpuSleepEmpty, ParamThenClose, BlankParamThenClose}

IdleTexts ==
    {JoinLines(m \o ls) :
        m \in IdleMarkers, ls \in TextsUpTo(IdlePartPool, MaxIdleParts)}

LineNodeShort ==
    << "a", "{" >>

LineBrace ==
    << "}" >>

LineOpenString ==
    << "\"", "}" >>

LineOpenComment ==
    << "/", "*" >>

LineQuoteEscape ==
    << "'", "\\" >>

LineTwoCloses ==
    << "}", "}" >>

MaxLoopLines == 3

\* Short lines: a node opening, closing braces without an opening, a string
\* and a block comment that are never closed, a backslash at the end of a
\* string.
LoopLinePool ==
    {LineNodeShort, LineBrace, LineOpenString, LineOpenComment,
     LineQuoteEscape, LineTwoCloses}

\* The texts of at most n lines of the pool P, lines joined by newlines.
FilesUpTo(P, n) == {JoinLines(ls) : ls \in TextsUpTo(P, n)}

(* Files with two top-level groups *)

\* }; }; on one line
LineCloseTwo == LineClose \o <<" ">> \o LineClose

GroupLinePool == {LineCpus, LineGcc, LineSoc, LineCloseTwo}

MaxGroupLines == 5

(* Idle texts with CPU and power-domain labels *)

\* cpuK: cpu@K {
CpuLine(k) ==
    TxtCpu \o <<DigitSeq[k + 1]>> \o <<":", " ">> \o TxtCpuAt
        \o <<DigitSeq[k + 1]>> \o <<" ", "{">>

\* cpu_pdK: power-domain-cpuK {
CpuPdLine(k) ==
    TxtCpuPd \o <<DigitSeq[k + 1]>> \o <<":", " ">> \o TxtPowerDomainCpu
        \o <<DigitSeq[k + 1]>> \o <<" ", "{">>

\* The power domains 0 to 8, one on a line
NinePds == JoinLines([k \in 1..9 |-> CpuPdLine(k - 1)])

TopologyPartPool ==
    {LineClusterPd, CpuLine(0), CpuLine(8), CpuPdLine(0), NinePds}

MaxTopologyParts == 3

TopologyTexts ==
    {JoinLines(m \o ls) :
        m \in {<<>>, <<LineIdleStates>>},
        ls \in TextsUpTo(TopologyPartPool, MaxTopologyParts)}

(* Lines of nested and sibling blocks *)

LineBlockA ==
    << "a", " ", "{", " ", "}", ";" >>
LineBlockB ==
    << "b", " ", "{", " ", "}", ";" >>
LineQuotedClose ==
    << "x", " ", "=", " ", "\"", "}", "\"", ";" >>

TreeLinePool ==
    {LineSoc, LineGcc, LineBlockA, LineBlockB, LineClose, LineQuotedClose}

MaxTreeLines == 4

(* Output lines of git *)

LineReceiving ==
    << "R", "e", "c", "e", "i", "v", "i", "n", "g", " ", "o", "b", "j", "e",
      "c", "t", "s", ":", " ", " ", "7", "3", "%", " ", "(", "8", "/", "1",
      "1", ")", "\n" >>
LineRemote ==
    << "r", "e", "m", "o", "t", "e", ":", " ", "1", "5", "0", "%", " ", "o",
      "f", " ", "q", "u", "o", "t", "a", "\n" >>
LineFrom ==
    << "F", "r", "o", "m", " ", "e", "x", "a", "m", "p", "l", "e", ".", "o",
      "r", "g", "/", "l", "i", "n", "u", "x", "\n" >>
LineUpdatingEscaped ==
    << "U", "p", "d", "a", "t", "i", "n", "g", " ", "f", "i", "l", "e", "s",
      ":", " ", "\\", "d", "%", " ", "\n" >>

ProgressLinePool ==
    {LineReceiving, LineRemote, LineFrom, LineUpdatingEscaped}

Projects == {"kernel", "demo"}

MaxThreads == 2
MaxProgressLines == 2

Idle == <<>>

StripIdle == text = Idle /\ stripped = Idle
CountIdle == line = Idle /\ counted = Idle
ParseIdle ==
    /\ content = Idle /\ lines = Idle /\ idx = 0 /\ stack = Idle
    /\ nodes = Idle /\ edges = Idle /\ paths = {} /\ brace_depth = 0
    /\ node_index = 0 /\ graph_lines = Idle /\ result = Idle
    /\ opens = 0 /\ closes = 0
DiffIdle ==
    /\ file_a = Idle /\ file_b = Idle /\ sa = {} /\ sb = {}
    /\ tree_delta = Idle
OverviewIdle ==
    /\ ov_content = Idle /\ max_root_children = 0 /\ max_soc_children = 0
    /\ root_sorted = Idle /\ soc_sorted = Idle /\ overview = Idle
IdleIdle == idle_content = Idle /\ info = Idle /\ idle_diagram = Idle
LoopIdle == strip_state = Idle /\ count_state = Idle
CloneIdle ==
    /\ program = "none" /\ State = Idle /\ threads = Idle
    /\ linux_dir = Idle
RestIdle == OverviewIdle /\ IdleIdle /\ LoopIdle /\ CloneIdle

----------------------------------------------------------------------------
(* Calls of _strip_comments *)

InitStrip ==
    /\ pc = "strip_call"
    /\ text \in TextsUpTo(StripAlphabet, MaxStripLen)
    /\ stripped = Idle
    /\ CountIdle /\ ParseIdle /\ DiffIdle /\ RestIdle

CallStripComments ==
    /\ pc = "strip_call"
    /\ stripped' = StripComments(text)
    /\ pc' = "strip_done"
    /\ UNCHANGED <<text, countVars, parseVars, diffVars, restVars>>

NextStrip == CallStripComments

SpecStrip == InitStrip /\ [][NextStrip]_vars

----------------------------------------------------------------------------
(* Calls of _count_braces_outside_strings *)

InitCount ==
    /\ pc = "count_call"
    /\ line \in TextsUpTo(CountAlphabet, MaxCountLen)
    /\ counted = Idle
    /\ StripIdle /\ ParseIdle /\ DiffIdle /\ RestIdle

CallCountBraces ==
    /\ pc = "count_call"
    /\ counted' = CountBraces(line)
    /\ pc' = "count_done"
    /\ UNCHANGED <<line, stripVars, parseVars, diffVars, restVars>>

NextCount == CallCountBraces

SpecCount == InitCount /\ [][NextCount]_vars

----------------------------------------------------------------------------
(* Calls of parse_dtsi_with_map *)

Locals ==
    [stack |-> stack, nodes |-> nodes, edges |-> edges, paths |-> paths,
     brace_depth |-> brace_depth, node_index |-> node_index,
     opens |-> opens, closes |-> closes, graph_lines |-> graph_lines]

SetLocals(ps) ==
    /\ stack' = ps.stack
    /\ nodes' = ps.nodes
    /\ edges' = ps.edges
    /\ paths' = ps.paths
    /\ brace_depth' = ps.brace_depth
    /\ node_index' = ps.node_index
    /\ opens' = ps.opens
    /\ closes' = ps.closes
    /\ graph_lines' = ps.graph_lines

InitParse ==
    /\ pc = "parse_call"
    /\ content \in FilesUpTo(LinePool, MaxLines)
    /\ lines = Idle /\ idx = 0 /\ stack = Idle /\ nodes = Idle
    /\ edges = Idle /\ paths = {} /\ brace_depth = 0 /\ node_index = 0
    /\ graph_lines = Idle /\ result = Idle /\ opens = 0 /\ closes = 0
    /\ StripIdle /\ CountIdle /\ DiffIdle /\ RestIdle

\* clean = _strip_comments(content); lines = clean.splitlines(); the locals
\* are set up.
Preprocess ==
    /\ pc = "parse_call"
    /\ lines' = SplitLines(StripComments(content))
    /\ SetLocals(ParseInit)
    /\ idx' = 0
    /\ pc' = "parse_loop"
    /\ UNCHANGED <<content, result, stripVars, countVars, diffVars,
                   restVars>>

\* An iteration of the for loop on a line that NODE_OPEN_RE matches.
LineOpensNode ==
    /\ pc = "parse_loop"
    /\ idx < Len(lines)
    /\ NodeOpenSearch(RStrip(lines[idx + 1])).matched
    /\ SetLocals(LineStep(Locals, idx + 1, lines[idx + 1]))
    /\ idx' = idx + 1
    /\ UNCHANGED <<pc, content, lines, result, stripVars, countVars,
                   diffVars, restVars>>

\* An iteration of the for loop on a line that NODE_OPEN_RE does not match.
LineWithoutNode ==
    /\ pc = "parse_loop"
    /\ idx < Len(lines)
    /\ ~NodeOpenSearch(RStrip(lines[idx + 1])).matched
    /\ SetLocals(LineStep(Locals, idx + 1, lines[idx + 1]))
    /\ idx' = idx + 1
    /\ UNCHANGED <<pc, content, lines, result, stripVars, countVars,
                   diffVars, restVars>>

\* The end-of-input block and the return statement.
ReturnParse ==
    /\ pc = "parse_loop"
    /\ idx = Len(lines)
    /\ SetLocals(ForceClose(Locals, lines))
    /\ result' = ParseResult(ForceClose(Locals, lines))
    /\ pc' = "parse_done"
    /\ UNCHANGED <<content, lines, idx, stripVars, countVars, diffVars,
                   restVars>>

NextParse ==
    \/ Preprocess
    \/ LineOpensNode
    \/ LineWithoutNode
    \/ ReturnParse

SpecParse == InitParse /\ [][NextParse]_vars

----------------------------------------------------------------------------
(* Calls of parse_dtsi_with_map on nested and sibling blocks *)

InitTree ==
    /\ pc = "parse_call"
    /\ content \in FilesUpTo(TreeLinePool, MaxTreeLines)
    /\ lines = Idle /\ idx = 0 /\ stack = Idle /\ nodes = Idle
    /\ edges = Idle /\ paths = {} /\ brace_depth = 0 /\ node_index = 0
    /\ graph_lines = Idle /\ result = Idle /\ opens = 0 /\ closes = 0
    /\ StripIdle /\ CountIdle /\ DiffIdle /\ RestIdle

SpecTree == InitTree /\ [][NextParse]_vars

----------------------------------------------------------------------------
(* Calls of diff_view with two files chosen *)

InitDiff ==
    /\ pc = "diff_call"
    /\ file_a \in FilesUpTo(DiffLinePool, MaxDiffLines)
    /\ file_b \in FilesUpTo(DiffLinePool, MaxDiffLines)
    /\ sa = {} /\ sb = {} /\ tree_delta = Idle
    /\ StripIdle /\ CountIdle /\ ParseIdle /\ RestIdle

\* sa = parse_dtsi_structure(...)["paths"], sb likewise, and the two sorted
\* differences.
DiffView ==
    /\ pc = "diff_call"
    /\ sa' = FilePaths(file_a)
    /\ sb' = FilePaths(file_b)
    /\ tree_delta' = StructureDiff(FilePaths(file_a), FilePaths(file_b))
    /\ pc' = "diff_done"
    /\ UNCHANGED <<file_a, file_b, stripVars, countVars, parseVars,
                 restVars>>

NextDiff == DiffView

SpecDiff == InitDiff /\ [][NextDiff]_vars

----------------------------------------------------------------------------
(* Calls of parse_overview_mermaid *)

InitOverview ==
    /\ pc = "overview_call"
    /\ ov_content \in FilesUpTo(OverviewLinePool, MaxOverviewLines)
    /\ max_root_children \in RootCaps
    /\ max_soc_children \in SocCaps
    /\ root_sorted = Idle /\ soc_sorted = Idle /\ overview = Idle
    /\ StripIdle /\ CountIdle /\ ParseIdle /\ DiffIdle /\ IdleIdle
    /\ LoopIdle /\ CloneIdle

CallOverview ==
    /\ pc = "overview_call"
    /\ LET r == ParseOverviewMermaid(ov_content, max_root_children,
                                     max_soc_children)
       IN  /\ root_sorted' = r.root_sorted
           /\ soc_sorted' = r.soc_sorted
           /\ overview' = r.lines
    /\ pc' = "overview_done"
    /\ UNCHANGED <<cloneVars, ov_content, max_root_children, max_soc_children,
                   stripVars, countVars, parseVars, diffVars, idleVars,
                   loopVars>>

NextOverview == CallOverview

\* Calls on files with two top-level groups
InitGroups ==
    /\ pc = "overview_call"
    /\ ov_content \in FilesUpTo(GroupLinePool, MaxGroupLines)
    /\ max_root_children \in RootCaps
    /\ max_soc_children = DefaultMaxSocChildren
    /\ root_sorted = Idle /\ soc_sorted = Idle /\ overview = Idle
    /\ StripIdle /\ CountIdle /\ ParseIdle /\ DiffIdle /\ IdleIdle
    /\ LoopIdle /\ CloneIdle

SpecGroups == InitGroups /\ [][NextOverview]_vars

SpecOverview == InitOverview /\ [][NextOverview]_vars

----------------------------------------------------------------------------
(* Calls of parse_idle_mermaid *)

InitIdle ==
    /\ pc = "idle_call"
    /\ idle_content \in IdleTexts
    /\ info = Idle /\ idle_diagram = Idle
    /\ StripIdle /\ CountIdle /\ ParseIdle /\ DiffIdle /\ OverviewIdle
    /\ LoopIdle /\ CloneIdle

\* info = extract_idle_info(content) and the diagram drawn from it.
CallParseIdleMermaid ==
    /\ pc = "idle_call"
    /\ LET rec == ExtractIdleInfo(idle_content)
       IN  info' = rec /\ idle_diagram' = DiagramOf(rec)
    /\ pc' = "idle_done"
    /\ UNCHANGED <<cloneVars,
                   idle_content, stripVars, countVars, parseVars, diffVars,
                   overviewVars, loopVars>>

NextIdle == CallParseIdleMermaid

SpecIdle == InitIdle /\ [][NextIdle]_vars

\* Calls on texts with CPU and power-domain labels
InitTopology ==
    /\ pc = "idle_call"
    /\ idle_content \in TopologyTexts
    /\ info = Idle /\ idle_diagram = Idle
    /\ StripIdle /\ CountIdle /\ ParseIdle /\ DiffIdle /\ OverviewIdle
    /\ LoopIdle /\ CloneIdle

SpecTopology == InitTopology /\ [][NextIdle]_vars

----------------------------------------------------------------------------
(* A call of parse_dtsi_with_map followed iteration by iteration *)

InitLoops ==
    /\ pc = "loops_strip"
    /\ content \in FilesUpTo(LoopLinePool, MaxLoopLines)
    /\ strip_state = StripInit
    /\ count_state = Idle
    /\ lines = Idle /\ idx = 0 /\ stack = Idle /\ nodes = Idle
    /\ edges = Idle /\ paths = {} /\ brace_depth = 0 /\ node_index = 0
    /\ graph_lines = Idle /\ result = Idle /\ opens = 0 /\ closes = 0
    /\ StripIdle /\ CountIdle /\ DiffIdle /\ OverviewIdle /\ IdleIdle
    /\ CloneIdle

\* line = raw_line.rstrip()
CurrentLine == RStrip(lines[idx])

\* An iteration of `while i < n:` in _strip_comments.
StripIteration ==
    /\ pc = "loops_strip"
    /\ strip_state.i < Len(content)
    /\ strip_state' = StripStep(content, strip_state)
    /\ UNCHANGED <<cloneVars, pc, count_state, stripVars, countVars, parseVars,
                   diffVars, overviewVars, idleVars>>

\* The loop of _strip_comments ends; lines = clean.splitlines() and the
\* locals of the parser are set up.
StripReturn ==
    /\ pc = "loops_strip"
    /\ ~(strip_state.i < Len(content))
    /\ lines' = SplitLines(strip_state.out)
    /\ SetLocals(ParseInit)
    /\ idx' = 0
    /\ pc' = "loops_line"
    /\ UNCHANGED <<cloneVars, content, result, loopVars, stripVars, countVars,
                   diffVars, overviewVars, idleVars>>

\* The for loop takes its next line, up to the call of
\* _count_braces_outside_strings.
LineBegin ==
    /\ pc = "loops_line"
    /\ idx < Len(lines)
    /\ idx' = idx + 1
    /\ count_state' = CountInit
    /\ pc' = "loops_count"
    /\ UNCHANGED <<cloneVars,
                   strip_state, content, lines, stack, nodes, edges, paths,
                   brace_depth, node_index, graph_lines, result, opens,
                   closes, stripVars, countVars, diffVars, overviewVars,
                   idleVars>>

\* An iteration of `while i < len(line):` in _count_braces_outside_strings.
CountIteration ==
    /\ pc = "loops_count"
    /\ count_state.i < Len(CurrentLine)
    /\ count_state' = CountStep(CurrentLine, count_state)
    /\ UNCHANGED <<cloneVars, pc, strip_state, stripVars, countVars, parseVars,
                   diffVars, overviewVars, idleVars>>

\* The count returns; the node is recorded if the line opens one and the
\* depth is updated.
CountReturn ==
    /\ pc = "loops_count"
    /\ ~(count_state.i < Len(CurrentLine))
    /\ LET m == NodeOpenSearch(CurrentLine)
           c == <<count_state.opens, count_state.closes>>
       IN  SetLocals(IF m.matched
                     THEN OpenNodeCounted(Locals, idx, CurrentLine, m, c)
                     ELSE SkipLineCounted(Locals, c))
    /\ pc' = "loops_close"
    /\ UNCHANGED <<cloneVars, content, lines, idx, result, loopVars, stripVars,
                   countVars, diffVars, overviewVars, idleVars>>

\* An iteration of `while stack:` that pops the top frame.
CloseIteration ==
    /\ pc = "loops_close"
    /\ stack # <<>>
    /\ ClosesTop(brace_depth, stack[Len(stack)])
    /\ SetLocals(PopFrame(Locals, idx))
    /\ UNCHANGED <<cloneVars,
                   pc, content, lines, idx, result, loopVars, stripVars,
                   countVars, diffVars, overviewVars, idleVars>>

\* `while stack:` ends, on an empty stack or by `break`.
CloseExit ==
    /\ pc = "loops_close"
    /\ ~(stack # <<>> /\ ClosesTop(brace_depth, stack[Len(stack)]))
    /\ pc' = "loops_line"
    /\ UNCHANGED <<cloneVars,
                   loopVars, stripVars, countVars, parseVars, diffVars,
                   overviewVars, idleVars>>

\* An iteration of `while stack:` in the end-of-input block.
ForceIteration ==
    /\ pc = "loops_line"
    /\ idx = Len(lines)
    /\ lines # <<>> /\ stack # <<>>
    /\ SetLocals(PopFrame(Locals, Len(lines)))
    /\ UNCHANGED <<cloneVars,
                   pc, content, lines, idx, result, loopVars, stripVars,
                   countVars, diffVars, overviewVars, idleVars>>

\* The return statement.
ReturnLoops ==
    /\ pc = "loops_line"
    /\ idx = Len(lines)
    /\ ~(lines # <<>> /\ stack # <<>>)
    /\ result' = ParseResult(Locals)
    /\ pc' = "loops_done"
    /\ UNCHANGED <<cloneVars, content, lines, idx, stack, nodes, edges, paths,
                   brace_depth, node_index, graph_lines, opens, closes,
                   loopVars, stripVars, countVars, diffVars, overviewVars,
                   idleVars>>

NextLoops ==
    \/ StripIteration
    \/ StripReturn
    \/ LineBegin
    \/ CountIteration
    \/ CountReturn
    \/ CloseIteration
    \/ CloseExit
    \/ ForceIteration
    \/ ReturnLoops

SpecLoops == InitLoops /\ [][NextLoops]_vars

\* Every call the model follows.
----------------------------------------------------------------------------
(* The clone routes and the clone threads of the two servers *)

\* The server has started: STATE = {} and no thread; a project directory
\* holds no linux directory or one cloned by an earlier run.
InitClone ==
    /\ pc = "serving"
    /\ program \in {"git_service", "app"}
    /\ State = <<>>
    /\ threads = <<>>
    /\ linux_dir \in [Projects -> {"absent", "repo"}]
    /\ StripIdle /\ CountIdle /\ ParseIdle /\ DiffIdle /\ OverviewIdle
    /\ IdleIdle /\ LoopIdle

\* The number of output lines the threads have read
RECURSIVE LinesRead(_)
LinesRead(ts) ==
    IF ts = <<>> THEN 0 ELSE Head(ts).nread + LinesRead(Tail(ts))

NewThread(name) ==
    [name |-> name, at |-> "start", fresh |-> FALSE, nread |-> 0, pct |-> 0]

otherVars ==
    <<stripVars, countVars, parseVars, diffVars, overviewVars, idleVars,
      loopVars>>

\* POST /clone/<name> of routes/main.py: start_clone_thread.
Clone(name) ==
    /\ pc = "serving" /\ program = "git_service"
    /\ Len(threads) < MaxThreads
    /\ threads' = Append(threads, NewThread(name))
    /\ UNCHANGED <<pc, program, State, linux_dir, otherVars>>

\* run_sparse_checkout up to update_state(name, "cloning", 0, "Starting...").
RunSparseCheckoutStart(t) ==
    /\ pc = "serving" /\ program = "git_service"
    /\ threads[t].at = "start"
    /\ LET name == threads[t].name
           fresh == linux_dir[name] # "repo"
       IN  /\ linux_dir' =
                 IF fresh THEN [linux_dir EXCEPT ![name] = "empty"]
                 ELSE linux_dir
           /\ State' = UpdateState(State, name, "cloning", 0, TxtStarting)
           /\ threads' = [threads EXCEPT ![t].at = "setup",
                                         ![t].fresh = fresh]
    /\ UNCHANGED <<pc, program, otherVars>>

\* open(log_file, "w"), the run_git calls of a fresh directory, the sparse
\* file and Popen; the first step that raises ends the thread in the
\* except clause.
RunSparseCheckoutSetup(t, outcome) ==
    /\ pc = "serving" /\ program = "git_service"
    /\ threads[t].at = "setup"
    /\ outcome \in SetupOutcomes(threads[t].fresh)
    /\ LET name == threads[t].name
           inited ==
               /\ threads[t].fresh
               /\ outcome = "ok" \/ StepNo(outcome) > StepNo("init")
       IN  /\ linux_dir' =
                 IF inited THEN [linux_dir EXCEPT ![name] = "repo"]
                 ELSE linux_dir
           /\ IF outcome = "ok"
              THEN /\ threads' = [threads EXCEPT ![t].at = "read"]
                   /\ UNCHANGED State
              ELSE /\ threads' = [threads EXCEPT ![t].at = "done"]
                   /\ State' = UpdateState(State, name, "error", 0,
                                           ErrorText(outcome))
    /\ UNCHANGED <<pc, program, otherVars>>

\* An iteration of `for line in process.stdout:`.
RunSparseCheckoutLine(t, l) ==
    /\ pc = "serving" /\ program = "git_service"
    /\ threads[t].at = "read"
    /\ LinesRead(threads) < MaxProgressLines
    /\ LET name == threads[t].name
           m == PercentSearch(l)
       IN  State' = IF m.matched
                    THEN UpdateState(State, name, "cloning",
                                     IntOf(m.group).val, Strip(l))
                    ELSE State
    /\ threads' = [threads EXCEPT ![t].nread = @ + 1]
    /\ UNCHANGED <<pc, program, linux_dir, otherVars>>

\* The output ends: process.wait() and the return code.
RunSparseCheckoutExit(t, returncode) ==
    /\ pc = "serving" /\ program = "git_service"
    /\ threads[t].at = "read"
    /\ LET name == threads[t].name
       IN  State' = IF returncode = 0
                    THEN UpdateState(State, name, "ready", 100, TxtReady)
                    ELSE UpdateState(State, name, "error", 0, TxtGitError)
    /\ threads' = [threads EXCEPT ![t].at = "done"]
    /\ UNCHANGED <<pc, program, linux_dir, otherVars>>

\* POST /clone/<name>/start of app.py for a project that has project.json.
CloneStart(name) ==
    /\ pc = "serving" /\ program = "app"
    /\ Len(threads) < MaxThreads
    /\ threads' = Append(threads, NewThread(name))
    /\ UNCHANGED <<pc, program, State, linux_dir, otherVars>>

\* _run_clone up to _state(name, status="cloning", percent=0, log=...).
RunCloneStart(t) ==
    /\ pc = "serving" /\ program = "app"
    /\ threads[t].at = "start"
    /\ LET name == threads[t].name
       IN  /\ linux_dir' = [linux_dir EXCEPT ![name] = "absent"]
           /\ State' = StateUpdate(State, name,
                                   [status |-> "cloning", percent |-> 0,
                                    log |-> TxtCloneLog])
    /\ threads' = [threads EXCEPT ![t].at = "setup"]
    /\ UNCHANGED <<pc, program, otherVars>>

\* open(log_file, "w") outside the try statement, then Popen inside it.
RunCloneSetup(t, outcome) ==
    /\ pc = "serving" /\ program = "app"
    /\ threads[t].at = "setup"
    /\ outcome \in {"ok", "open", "popen"}
    /\ LET name == threads[t].name
       IN  /\ linux_dir' =
                 IF outcome = "ok" THEN [linux_dir EXCEPT ![name] = "repo"]
                 ELSE linux_dir
           /\ State' =
                 IF outcome = "popen"
                 THEN StateUpdate(State, name, [status |-> "error"])
                 ELSE State
    /\ threads' = [threads EXCEPT ![t].at =
                       IF outcome = "ok" THEN "read" ELSE "done"]
    /\ UNCHANGED <<pc, program, otherVars>>

\* An iteration of `for line in p.stdout:`; int() of group 2 can raise.
RunCloneLine(t, l) ==
    /\ pc = "serving" /\ program = "app"
    /\ threads[t].at = "read"
    /\ LinesRead(threads) < MaxProgressLines
    /\ LET name == threads[t].name
           m == ProgressSearch(l)
           v == IntOf(m.group)
           pct == Max(threads[t].pct, Min(100, v.val))
       IN  IF ~m.matched
           THEN /\ threads' = [threads EXCEPT ![t].nread = @ + 1]
                /\ UNCHANGED State
           ELSE IF v.ok
           THEN /\ threads' = [threads EXCEPT ![t].nread = @ + 1,
                                              ![t].pct = pct]
                /\ State' = StateUpdate(State, name, [percent |-> pct])
           ELSE /\ threads' = [threads EXCEPT ![t].at = "done"]
                /\ State' = StateUpdate(State, name, [status |-> "error"])
    /\ UNCHANGED <<pc, program, linux_dir, otherVars>>

\* The output ends: p.wait() and the return code.
RunCloneExit(t, returncode) ==
    /\ pc = "serving" /\ program = "app"
    /\ threads[t].at = "read"
    /\ LET name == threads[t].name
       IN  State' = IF returncode = 0
                    THEN StateUpdate(State, name,
                                     [status |-> "ready", percent |-> 100])
                    ELSE StateUpdate(State, name, [status |-> "error"])
    /\ threads' = [threads EXCEPT ![t].at = "done"]
    /\ UNCHANGED <<pc, program, linux_dir, otherVars>>

\* GET /state/<name> of routes/main.py
StateRoute(name) == GetState(State, name)

\* GET /api/clone_status/<name> of app.py: status and percent
CloneStatus(name) ==
    [status |-> GetState(State, name).status,
     percent |-> GetState(State, name).percent]

\* The status the home page of app.py shows for a project
HomeStatus(name) ==
    IF name \in DOMAIN State THEN State[name].status
    ELSE IF linux_dir[name] # "absent" THEN "ready"
    ELSE "idle"

ReturnCodes == {0, 1}

NextClone ==
    \/ \E name \in Projects : Clone(name)
    \/ \E t \in DOMAIN threads : RunSparseCheckoutStart(t)
    \/ \E t \in DOMAIN threads :
          \E outcome \in SetupOutcomes(TRUE) : RunSparseCheckoutSetup(t, outcome)
    \/ \E t \in DOMAIN threads :
          \E l \in ProgressLinePool : RunSparseCheckoutLine(t, l)
    \/ \E t \in DOMAIN threads :
          \E returncode \in ReturnCodes : RunSparseCheckoutExit(t, returncode)
    \/ \E name \in Projects : CloneStart(name)
    \/ \E t \in DOMAIN threads : RunCloneStart(t)
    \/ \E t \in DOMAIN threads :
          \E outcome \in {"ok", "open", "popen"} : RunCloneSetup(t, outcome)
    \/ \E t \in DOMAIN threads :
          \E l \in ProgressLinePool : RunCloneLine(t, l)
    \/ \E t \in DOMAIN threads :
          \E returncode \in ReturnCodes : RunCloneExit(t, returncode)

SpecClone == InitClone /\ [][NextClone]_vars

Init ==
    \/ InitStrip \/ InitCount \/ InitParse \/ InitDiff \/ InitOverview
    \/ InitIdle \/ InitLoops \/ InitClone \/ InitTree \/ InitTopology
    \/ InitGroups

Next ==
    \/ NextStrip \/ NextCount \/ NextParse \/ NextDiff \/ NextOverview
    \/ NextIdle \/ NextLoops \/ NextClone

Spec == Init /\ [][Next]_vars

----------------------------------------------------------------------------
(* Reference notions used by the properties *)

\* The characters of t that are neither in a // comment nor in a /* */
\* comment, read in the given mode ("code", "string" opened by quote q,
\* "line" comment, "block" comment); the newline that ends a // comment is
\* not part of the comment.
RECURSIVE OutsideComments(_, _, _)
OutsideComments(t, mode, q) ==
    IF t = <<>> THEN <<>>
    ELSE IF mode = "string" THEN
        IF Head(t) = BS /\ Len(t) >= 2
        THEN <<t[1], t[2]>> \o OutsideComments(Drop(t, 2), "string", q)
        ELSE <<Head(t)>> \o
             OutsideComments(Tail(t),
                             IF Head(t) = q THEN "code" ELSE "string", q)
    ELSE IF mode = "line" THEN
        IF Head(t) = NL
        THEN <<NL>> \o OutsideComments(Tail(t), "code", q)
        ELSE OutsideComments(Tail(t), "line", q)
    ELSE IF mode = "block" THEN
        IF Len(t) >= 2 /\ t[1] = "*" /\ t[2] = "/"
        THEN OutsideComments(Drop(t, 2), "code", q)
        ELSE OutsideComments(Tail(t), "block", q)
    ELSE IF Head(t) \in {SQ, DQ}
    THEN <<Head(t)>> \o OutsideComments(Tail(t), "string", Head(t))
    ELSE IF Len(t) >= 2 /\ t[1] = "/" /\ t[2] = "/"
    THEN OutsideComments(Drop(t, 2), "line", q)
    ELSE IF Len(t) >= 2 /\ t[1] = "/" /\ t[2] = "*"
    THEN OutsideComments(Drop(t, 2), "block", q)
    ELSE <<Head(t)>> \o OutsideComments(Tail(t), "code", q)

\* The number of characters b of t outside string literals, t read inside a
\* literal opened by q when inside is TRUE.
RECURSIVE OutsideStrings(_, _, _, _)
OutsideStrings(t, b, inside, q) ==
    IF t = <<>> THEN 0
    ELSE IF inside THEN
        IF Head(t) = BS /\ Len(t) >= 2
        THEN OutsideStrings(Drop(t, 2), b, TRUE, q)
        ELSE OutsideStrings(Tail(t), b, Head(t) # q, q)
    ELSE IF Head(t) \in {SQ, DQ}
    THEN OutsideStrings(Tail(t), b, TRUE, Head(t))
    ELSE (IF Head(t) = b THEN 1 ELSE 0) + OutsideStrings(Tail(t), b, FALSE, q)

\* t, the text after an opening quote q, holds the matching closing quote.
RECURSIVE HasClosingQuote(_, _)
HasClosingQuote(t, q) ==
    IF t = <<>> THEN FALSE
    ELSE IF Head(t) = BS /\ Len(t) >= 2 THEN HasClosingQuote(Drop(t, 2), q)
    ELSE Head(t) = q \/ HasClosingQuote(Tail(t), q)

\* As OutsideStrings, a quote without a matching closing quote opening no
\* literal.
RECURSIVE OutsideClosedStrings(_, _, _, _)
OutsideClosedStrings(t, b, inside, q) ==
    IF t = <<>> THEN 0
    ELSE IF inside THEN
        IF Head(t) = BS /\ Len(t) >= 2
        THEN OutsideClosedStrings(Drop(t, 2), b, TRUE, q)
        ELSE OutsideClosedStrings(Tail(t), b, Head(t) # q, q)
    ELSE IF Head(t) \in {SQ, DQ} /\ HasClosingQuote(Tail(t), Head(t))
    THEN OutsideClosedStrings(Tail(t), b, TRUE, Head(t))
    ELSE (IF Head(t) = b THEN 1 ELSE 0)
         + OutsideClosedStrings(Tail(t), b, FALSE, q)

\* The line l opens a node whose opening brace has its matching closing
\* brace on l.
ClosesOnSameLine(l) ==
    LET m == NodeOpenSearch(l)
    IN  /\ m.matched
        /\ \E k \in (m.end + 1)..Len(l) :
              OutsideStrings(SubSeq(l, m.end, k), "{", FALSE, "")
                  = OutsideStrings(SubSeq(l, m.end, k), "}", FALSE, "")

Elements(q) == {q[k] : k \in 1..Len(q)}

Ascending(q) == \A k \in 1..(Len(q) - 1) : StrLess(q[k], q[k + 1])

PathCpus == << "/", "c", "p", "u", "s" >>

PathCpusCpu0 == << "/", "c", "p", "u", "s", "/", "c", "p", "u", "0" >>

PathSoc == << "/", "s", "o", "c" >>

PathSocGcc == << "/", "s", "o", "c", "/", "g", "c", "c" >>

Scenario1 == LineScenario1

Scenario1Split == JoinLines(<<LineCpus, LineCpu0, LineClose>>)

Scenario2 == JoinLines(<<LineComment, LineQuoted, LineFoo>>)

----------------------------------------------------------------------------
(* Properties *)

\* C1: the text returned by _strip_comments has as many newline characters
\* as its argument, whatever comments the argument holds.
C1_NewlinesPreserved ==
    pc = "strip_done" => CountChar(stripped, NL) = CountChar(text, NL)

\* C2: _count_braces_outside_strings returns the numbers of "{" and of "}"
\* that lie outside quoted string literals, a brace between an opening quote
\* and its matching closing quote counting for neither; a quote that is
\* never closed may be read as opening a literal that runs to the end of the
\* line or as opening none.
C2_BracesOutsideStrings ==
    pc = "count_done" =>
        \/ counted = << OutsideStrings(line, "{", FALSE, ""),
                        OutsideStrings(line, "}", FALSE, "") >>
        \/ counted = << OutsideClosedStrings(line, "{", FALSE, ""),
                        OutsideClosedStrings(line, "}", FALSE, "") >>

\* C3: after the iteration for a line L that opens a node and holds the
\* matching closing brace, the node has end_line = L and is off the stack.
C3_SameLineNodeClosed ==
    (pc = "parse_loop" /\ idx >= 1 /\ ClosesOnSameLine(RStrip(lines[idx])))
        => /\ nodes[NodeId(node_index - 1)].end_line = idx
           /\ \A k \in 1..Len(stack) : stack[k].id # NodeId(node_index - 1)

\* C4: in every returned result, every node has end_line set and
\* start_line <= end_line, for balanced and unbalanced input alike.
C4_EveryNodeClosed ==
    pc = "parse_done" =>
        \A id \in DOMAIN result.nodes :
            /\ result.nodes[id].end_line # None
            /\ result.nodes[id].start_line <= result.nodes[id].end_line

C4_Witness ==
    pc = "parse_done" /\ brace_depth < 0 /\ DOMAIN result.nodes # {}

\* C5: _strip_comments returns its argument without the // and /* */
\* comments that start outside string literals, every character of a string
\* literal kept, a backslash-escaped quote not ending the literal.
C5_CommentsRemovedStringsKept ==
    pc = "strip_done" => stripped = OutsideComments(text, "code", "")

C5_Witness ==
    /\ pc = "strip_done"
    /\ Len(text) = 5
    /\ text[1] \in {SQ, DQ} /\ text[2] = BS /\ text[3] = text[1]
    /\ text[4] = "/" /\ text[5] \in {"/", "*"}
    /\ stripped = text

\* C6: edge endpoints are ids of the node map, no node has two incoming
\* edges, and an edge (p, c) is appended exactly when c is opened while the
\* stack is not empty, p being the top of the stack at that moment.
C6_EdgesWellFormed ==
    /\ \A k \in 1..Len(edges) :
          edges[k][1] \in DOMAIN nodes /\ edges[k][2] \in DOMAIN nodes
    /\ \A j, k \in 1..Len(edges) : edges[j][2] = edges[k][2] => j = k
    /\ pc = "parse_done" => result.edges = edges /\ result.nodes = nodes

C6_EdgeRecordedOnOpen ==
    pc = "parse_loop" =>
        IF node_index' = node_index + 1 /\ stack # <<>>
        THEN edges' = Append(edges, <<stack[Len(stack)].id,
                                      NodeId(node_index)>>)
        ELSE edges' = edges

C6_Edges == []C6_EdgesWellFormed /\ [][C6_EdgeRecordedOnOpen]_vars

C6_Witness == pc = "parse_done" /\ Len(result.edges) >= 1

\* C7: the path of a node is the path of the frame on top of the stack when
\* the node is opened (nothing when the stack is empty), "/" and the
\* normalized display text; the returned paths are exactly the node paths.
C7_PathOnOpen ==
    (pc = "parse_loop" /\ node_index' = node_index + 1) =>
        LET n == nodes'[NodeId(node_index)]
            shown == IF n.label # <<>> THEN n.label ELSE n.name
            above == IF stack # <<>> THEN stack[Len(stack)].path ELSE <<>>
        IN  n.path = above \o <<"/">> \o DispNorm(shown)

C7_PathsReturned ==
    pc = "parse_done" =>
        /\ Elements(result.paths)
              = {result.nodes[id].path : id \in DOMAIN result.nodes}
        /\ Len(result.paths) = Cardinality(Elements(result.paths))

C7_Paths == []C7_PathsReturned /\ [][C7_PathOnOpen]_vars

C7_Witness ==
    /\ pc = "parse_done"
    /\ \E k \in 1..Len(result.edges) :
          result.nodes[result.edges[k][2]].label # <<>>

\* C8: added is the sorted sequence of sb - sa and removed that of sa - sb;
\* they are disjoint, swapping the inputs swaps them, equal inputs give two
\* empty sequences, and adding only /soc/gcc gives ([/soc/gcc], []).
C8_StructuralDiff ==
    pc = "diff_done" =>
        LET added == tree_delta.added_nodes
            removed == tree_delta.removed_nodes
        IN  /\ Elements(added) = sb \ sa /\ Ascending(added)
            /\ Elements(removed) = sa \ sb /\ Ascending(removed)
            /\ Elements(added) \cap Elements(removed) = {}
            /\ StructureDiff(sb, sa)
                  = [added_nodes |-> removed, removed_nodes |-> added]
            /\ sa = sb => added = <<>> /\ removed = <<>>
            /\ (sb = sa \cup {PathSocGcc} /\ PathSocGcc \notin sa)
                  => added = <<PathSocGcc>> /\ removed = <<>>

C8_Witness ==
    /\ pc = "diff_done"
    /\ sa = {PathSoc} /\ sb = {PathSoc, PathSocGcc}
    /\ tree_delta.added_nodes = <<PathSocGcc>>

\* C9 as stated: the one-line text cpus { cpu0: cpu@0 { }; }; gives two
\* nodes, /cpus and /cpus/cpu0, and one edge between them.
C9_Scenario1TwoNodes ==
    (pc = "parse_done" /\ content = Scenario1) =>
        /\ result.paths = <<PathCpus, PathCpusCpu0>>
        /\ Cardinality(DOMAIN result.nodes) = 2
        /\ result.edges = << <<NodeId(0), NodeId(1)>> >>
        /\ result.nodes[NodeId(0)].path = PathCpus
        /\ result.nodes[NodeId(1)].path = PathCpusCpu0

\* C9: the one-line text gives the single node /cpus and no edge, the
\* second opening on the line going undetected; written with one opening
\* per line, the text gives the nodes /cpus and /cpus/cpu0 and one edge from
\* the first to the second.
C9_Scenario1OnePerLine ==
    /\ (pc = "parse_done" /\ content = Scenario1) =>
          /\ result.paths = <<PathCpus>>
          /\ DOMAIN result.nodes = {NodeId(0)}
          /\ result.nodes[NodeId(0)].path = PathCpus
          /\ result.edges = <<>>
    /\ (pc = "parse_done" /\ content = Scenario1Split) =>
          /\ result.paths = <<PathCpus, PathCpusCpu0>>
          /\ DOMAIN result.nodes = {NodeId(0), NodeId(1)}
          /\ result.nodes[NodeId(0)].path = PathCpus
          /\ result.nodes[NodeId(1)].path = PathCpusCpu0
          /\ result.edges = << <<NodeId(0), NodeId(1)>> >>

C9_Witness ==
    /\ pc = "parse_done"
    /\ content = Scenario1Split
    /\ Len(result.edges) = 1

\* C10: on the text of scenario 2 the scanner returns (0, 0) for line 2 and
\* the result is the single node foo with start_line 3 and end_line 3.
C10_Scenario2 ==
    content = Scenario2 =>
        /\ (pc = "parse_loop" /\ idx = 2) => opens = 0 /\ closes = 0
        /\ pc = "parse_done" =>
              /\ DOMAIN result.nodes = {NodeId(0)}
              /\ result.nodes[NodeId(0)].name = <<"f", "o", "o">>
              /\ result.nodes[NodeId(0)].start_line = 3
              /\ result.nodes[NodeId(0)].end_line = 3

\* The segments of a path are its maximal runs of characters other than "/";
\* SegmentStarts are the positions where one begins.
SegmentStarts(p) ==
    {k \in 1..Len(p) : p[k] # "/" /\ (k = 1 \/ p[k - 1] = "/")}

SegmentFrom(p, k) ==
    SubSeq(p, k, RunEnd(p, k, {p[j] : j \in 1..Len(p)} \ {"/"}) - 1)

\* The n-th non-empty segment of p, the empty text when p has fewer.
Segment(p, n) ==
    IF Cardinality(SegmentStarts(p)) < n THEN <<>>
    ELSE SegmentFrom(p, CHOOSE k \in SegmentStarts(p) :
             Cardinality({j \in SegmentStarts(p) : j < k}) = n - 1)

\* q holds the first `cap` groups of G, each with its population, in the
\* order of descending population and ascending name.
Ranked(q, G, pop, cap) ==
    /\ Len(q) = (IF cap < Cardinality(G) THEN cap ELSE Cardinality(G))
    /\ \A k \in 1..Len(q) : q[k][1] \in G /\ q[k][2] = pop[q[k][1]]
    /\ \A k \in 1..(Len(q) - 1) :
          \/ q[k][2] > q[k + 1][2]
          \/ q[k][2] = q[k + 1][2] /\ StrLess(q[k][1], q[k + 1][1])
    /\ \A g \in G \ {q[k][1] : k \in 1..Len(q)} : \A k \in 1..Len(q) :
          \/ q[k][2] > pop[g]
          \/ q[k][2] = pop[g] /\ StrLess(q[k][1], g)

DistinctPaths(c) == Elements(ParseDtsiWithMap(c).paths)

TopGroups(P) == {Segment(p, 1) : p \in P} \ {<<>>}

SocGroups(P) ==
    {Segment(p, 2) : p \in {x \in P : Segment(x, 1) = NameSoc}} \ {<<>>}

\* C11: the overview summary lists the groups of the distinct paths by first
\* non-empty segment, each with the number of its paths, by descending count
\* and ascending name, cut to at most max_root_children entries; the paths
\* of the group soc are listed by second segment in the same way, cut to at
\* most max_soc_children entries.
C11_OverviewRanking ==
    pc = "overview_done" =>
        LET P == DistinctPaths(ov_content)
        IN  /\ Ranked(root_sorted, TopGroups(P),
                      [g \in TopGroups(P) |->
                          Cardinality({p \in P : Segment(p, 1) = g})],
                      max_root_children)
            /\ Ranked(soc_sorted, SocGroups(P),
                      [g \in SocGroups(P) |->
                          Cardinality({p \in P : Segment(p, 1) = NameSoc
                                                 /\ Segment(p, 2) = g})],
                      max_soc_children)
            /\ Len(root_sorted) <= max_root_children
            /\ Len(soc_sorted) <= max_soc_children

\* A summary cut to one of two top groups, with a child of soc listed.
C11_Witness ==
    /\ pc = "overview_done"
    /\ Cardinality(TopGroups(DistinctPaths(ov_content))) > max_root_children
    /\ Len(root_sorted) = max_root_children
    /\ soc_sorted # <<>>

\* A text has an idle marker when its comment-stripped form contains
\* idle-states, on its own or in domain-idle-states.
HasIdleMarker(c) ==
    \/ Contains(StripComments(c), TxtDomainIdleStates)
    \/ Contains(StripComments(c), TxtIdleStates)

\* C12: for a text whose comment-stripped form has no idle marker,
\* extract_idle_info returns the record whose only field is found = false and
\* parse_idle_mermaid returns the empty diagram.
C12_NoMarkerNothingFound ==
    (pc = "idle_done" /\ ~HasIdleMarker(idle_content)) =>
        /\ DOMAIN info = {"found"}
        /\ info.found = FALSE
        /\ idle_diagram = <<>>

\* A text with a marker in a comment only and a parameter line.
C12_Witness ==
    /\ pc = "idle_done"
    /\ ~HasIdleMarker(idle_content)
    /\ Contains(idle_content, TxtIdleStates)
    /\ Contains(idle_content, TxtPsciParam)
    /\ info = [found |-> FALSE]

\* A CPU index was matched in the comment-stripped text.
CpuIndexMatched(c) == CpuLabelIdxs(StripComments(c)) # {}

\* C13 as stated: with an idle marker, found is true exactly when a
\* cpu_sleep parameter was captured, or a cluster_sleep parameter was
\* captured, or a CPU index was matched and the cluster_pd label is present.
C13_FoundIffCaptured ==
    (pc = "idle_done" /\ HasIdleMarker(idle_content)) =>
        (info.found <=>
            \/ info.cpu_sleep_param.some
            \/ info.cluster_sleep_param.some
            \/ (CpuIndexMatched(idle_content) /\ info.has_cluster_pd))

\* C13: with an idle marker, found is true exactly when a cpu_sleep parameter
\* that is not empty after trimming was captured, or such a cluster_sleep
\* parameter was captured, or a CPU index was matched in the text and the
\* cluster_pd label is present; the fallback indices play no part.
C13_FoundIffNonEmptyCaptured ==
    (pc = "idle_done" /\ HasIdleMarker(idle_content)) =>
        (info.found <=>
            \/ (info.cpu_sleep_param.some /\ info.cpu_sleep_param.val # <<>>)
            \/ (info.cluster_sleep_param.some
                /\ info.cluster_sleep_param.val # <<>>)
            \/ (CpuIndexMatched(idle_content) /\ info.has_cluster_pd))

\* Nothing found although the cluster_pd label is there and the returned
\* indices are the fallback ones: no CPU index was matched.
C13_Witness ==
    /\ pc = "idle_done"
    /\ HasIdleMarker(idle_content)
    /\ ~info.found
    /\ info.has_cluster_pd
    /\ info.cpu_idxs = <<0, 1, 2, 3>>
    /\ info.cpu_sleep_param.some

\* The lines of c hold, one after the other, the opening line `open`, the
\* parameter line and a line `};`.
HasParamBlock(c, open) ==
    \E k \in 1..(Len(SplitLines(c)) - 2) :
        /\ SplitLines(c)[k] = open
        /\ SplitLines(c)[k + 1] = LineParam
        /\ SplitLines(c)[k + 2] = LineClose

\* Every line of c that opens a cpu_sleep or cluster_sleep block without
\* closing it starts such a three-line block.
BlocksComplete(c) ==
    \A k \in 1..Len(SplitLines(c)) :
        SplitLines(c)[k] \in {LineCpuSleep, LineClusterSleep} =>
            /\ k + 2 <= Len(SplitLines(c))
            /\ SplitLines(c)[k + 1] = LineParam
            /\ SplitLines(c)[k + 2] = LineClose

ParamLines(c) ==
    {k \in 1..Len(SplitLines(c)) :
        SplitLines(c)[k] \in {LineParam, LineBlankParam}}

Value40000004 ==
    << "0", "x", "4", "0", "0", "0", "0", "0", "0", "4" >>

\* C14: a text that contains domain-idle-states and a cpu_sleep block (label,
\* name, "{", a body with arm,psci-suspend-param = <V>;, a closing line "};")
\* gives found = true and cpu_sleep_param = V trimmed; likewise for a
\* cluster_sleep block and cluster_sleep_param.  The texts looked at have one
\* parameter line only, so that V is not in doubt, and no block that is left
\* open.
C14_BlockParamExtracted ==
    (/\ pc = "idle_done"
     /\ Contains(StripComments(idle_content), TxtDomainIdleStates)
     /\ Cardinality(ParamLines(idle_content)) = 1
     /\ BlocksComplete(idle_content)) =>
        /\ HasParamBlock(idle_content, LineCpuSleep) =>
               /\ info.found
               /\ info.cpu_sleep_param = [some |-> TRUE, val |-> Value40000004]
        /\ HasParamBlock(idle_content, LineClusterSleep) =>
               /\ info.found
               /\ info.cluster_sleep_param =
                      [some |-> TRUE, val |-> Value40000004]

\* Every iteration of a loop advances the index of the loop or pops a frame.
C16_Advance ==
    /\ (pc = "loops_strip" /\ pc' = "loops_strip") =>
           strip_state'.i > strip_state.i
    /\ (pc = "loops_count" /\ pc' = "loops_count") =>
           count_state'.i > count_state.i
    /\ (pc = "loops_line" /\ pc' = "loops_count") => idx' = idx + 1
    /\ (pc = "loops_close" /\ pc' = "loops_close") =>
           Len(stack') < Len(stack)
    /\ (pc = "loops_line" /\ pc' = "loops_line") =>
           Len(stack') < Len(stack)

\* No index is read beyond the end of its text, and no frame is popped from
\* an empty stack.
C16_InRange ==
    /\ pc = "loops_strip" => strip_state.i <= Len(content)
    /\ pc = "loops_count" =>
           /\ idx \in 1..Len(lines)
           /\ count_state.i <= Len(CurrentLine)
    /\ pc \in {"loops_line", "loops_close"} => idx \in 0..Len(lines)
    /\ \A k \in 1..Len(stack) : stack[k].id \in DOMAIN nodes

\* The steps that the lines after line j can still take: for each line, one
\* to begin it, one for each character, one to record it, one to leave the
\* closing loop and one to pop the frame it may push.
RECURSIVE StepsAfter(_)
StepsAfter(j) ==
    IF j < Len(lines) THEN Len(RStrip(lines[j + 1])) + 4 + StepsAfter(j + 1)
    ELSE 0

\* A bound on the number of steps that the call can still take.
StepsLeft ==
    IF pc = "loops_strip"
    THEN (Len(content) - strip_state.i) + 5 * Len(content) + 3
    ELSE IF pc = "loops_line" THEN StepsAfter(idx) + Len(stack) + 1
    ELSE IF pc = "loops_count"
    THEN StepsAfter(idx) + Len(stack) + 1
         + (Len(CurrentLine) - count_state.i) + 3
    ELSE IF pc = "loops_close" THEN StepsAfter(idx) + Len(stack) + 2
    ELSE 0

\* C16: on every input, with strings or comments left open and with braces
\* that do not balance, the three functions run without an index out of
\* range, every loop iteration advances its index or pops the stack, and
\* every step lowers a bound on the steps left, so that the call returns.
C16_Terminates ==
    /\ [](C16_InRange /\ StepsLeft >= 0)
    /\ [][C16_Advance /\ StepsLeft' < StepsLeft]_vars

\* A finished call whose text left a string open, ended a comment-less line
\* with more closing than opening braces, and had frames to force closed.
C16_Witness ==
    /\ pc = "loops_done"
    /\ strip_state.in_str
    /\ brace_depth < 0
    /\ DOMAIN nodes # {}

\* C17: in every reachable state of the clone status store and for every
\* project name, the reported status is one of idle, cloning, ready, error
\* and the reported percent is an integer between 0 and 100, whatever lines
\* git prints.
C17_StatusAndPercentInRange ==
    pc = "serving" =>
        \A name \in Projects :
            /\ program = "git_service" =>
                   /\ StateRoute(name).status \in Statuses
                   /\ StateRoute(name).percent \in 0..100
            /\ program = "app" =>
                   /\ CloneStatus(name).status \in Statuses
                   /\ CloneStatus(name).percent \in 0..100
                   /\ HomeStatus(name) \in Statuses

\* The same for the store of app.py alone, where the percent is clamped.
C17_AppInRange == program = "app" => C17_StatusAndPercentInRange

\* The ids of the frames on a stack
FrameIds(st) == {st[k].id : k \in 1..Len(st)}

\* C18: after the last line is processed, every frame still on the open
\* stack is popped and its node's end_line is set to the number of lines of
\* the preprocessed text (the other nodes keep theirs); the open stack is
\* empty when the result is returned.
C18_ForcedClose ==
    [][(pc = "parse_loop" /\ pc' = "parse_done") =>
          /\ idx = Len(lines)
          /\ stack' = <<>>
          /\ DOMAIN nodes' = DOMAIN nodes
          /\ \A n \in FrameIds(stack) : nodes'[n].end_line = Len(lines)
          /\ \A n \in DOMAIN nodes \ FrameIds(stack) : nodes'[n] = nodes[n]
          /\ \A n \in DOMAIN nodes :
                 nodes'[n] = [nodes[n] EXCEPT !.end_line = nodes'[n].end_line]
          /\ result'.nodes = nodes']_vars

\* Two nodes were opened before the last line and left open: both were
\* closed at the end of the input.
C18_Witness ==
    /\ pc = "parse_done"
    /\ brace_depth >= 2
    /\ Len(lines) >= 3
    /\ Cardinality({n \in DOMAIN nodes :
                       /\ nodes[n].start_line < Len(lines)
                       /\ nodes[n].end_line = Len(lines)}) >= 2

\* The braces of t outside string literals, in order; t is read inside a
\* literal opened by q when inside is TRUE.
RECURSIVE BracesOf(_, _, _)
BracesOf(t, inside, q) ==
    IF t = <<>> THEN <<>>
    ELSE IF inside THEN
        IF Head(t) = BS /\ Len(t) >= 2
        THEN BracesOf(Drop(t, 2), TRUE, q)
        ELSE BracesOf(Tail(t), Head(t) # q, q)
    ELSE IF Head(t) \in {SQ, DQ}
    THEN BracesOf(Tail(t), TRUE, Head(t))
    ELSE (IF Head(t) \in {"{", "}"} THEN <<Head(t)>> ELSE <<>>)
         \o BracesOf(Tail(t), FALSE, q)

\* The braces of the lines ls from line j on, each with its line number
RECURSIVE BracesFrom(_, _)
BracesFrom(ls, j) ==
    IF j > Len(ls) THEN <<>>
    ELSE LET b == BracesOf(ls[j], FALSE, "")
         IN  [k \in 1..Len(b) |-> [ch |-> b[k], line |-> j]]
             \o BracesFrom(ls, j + 1)

Braces(ls) == BracesFrom(ls, 1)

\* The nesting depth after the first i braces of tk
NestingAt(tk, i) ==
    Cardinality({k \in 1..i : tk[k].ch = "{"})
        - Cardinality({k \in 1..i : tk[k].ch = "}"})

\* Every closing brace closes an open one and none stays open.
Balanced(tk) ==
    /\ \A i \in 1..Len(tk) : NestingAt(tk, i) >= 0
    /\ NestingAt(tk, Len(tk)) = 0

\* The brace that closes the opening brace i of a balanced tk
MatchOf(tk, i) ==
    CHOOSE j \in (i + 1)..Len(tk) :
        /\ NestingAt(tk, j) = NestingAt(tk, i) - 1
        /\ \A k \in (i + 1)..(j - 1) : NestingAt(tk, k) >= NestingAt(tk, i)

\* The opening brace of the node that line s opens: the first brace of s
OpeningOf(tk, s) == CHOOSE i \in 1..Len(tk) :
    /\ tk[i].line = s
    /\ \A k \in 1..(i - 1) : tk[k].line < s

\* The braces of the node opened on line sp enclose the opening of the node
\* opened on line sc.
Encloses(tk, sp, sc) ==
    /\ OpeningOf(tk, sp) < OpeningOf(tk, sc)
    /\ OpeningOf(tk, sc) < MatchOf(tk, OpeningOf(tk, sp))

\* At most one opening brace on every line
OneOpeningPerLine(ls) ==
    \A j \in 1..Len(ls) :
        Cardinality({k \in 1..Len(ls[j]) : ls[j][k] = "{"}) <= 1

\* At most one brace character on every line
OneBracePerLine(ls) ==
    \A j \in 1..Len(ls) :
        Cardinality({k \in 1..Len(ls[j]) : ls[j][k] \in {"{", "}"}}) <= 1

\* soc { a { }; b { }; }; on four lines, and the paths /soc, /soc/a, /soc/b
Siblings == JoinLines(<< LineSoc, LineBlockA, LineBlockB, LineClose >>)

PathSocA == << "/", "s", "o", "c", "/", "a" >>

PathSocB == << "/", "s", "o", "c", "/", "b" >>

\* C19: for brace-balanced input with at most one node opening on a line,
\* the parent recorded for a node (the source of its one edge, the prefix of
\* its path) is the node whose braces most closely enclose it, and a node
\* nothing encloses has no edge and a path of one segment; sibling blocks
\* a { }; and b { }; on consecutive lines inside soc { ... } get the paths
\* /soc/a and /soc/b.
C19_ParentEncloses ==
    (pc = "parse_done" /\ Balanced(Braces(lines)) /\ OneOpeningPerLine(lines))
    => LET tk == Braces(lines)
           ns == result.nodes
           into(c) == {k \in 1..Len(result.edges) : result.edges[k][2] = c}
           around(c) == {p \in DOMAIN ns :
                           Encloses(tk, ns[p].start_line, ns[c].start_line)}
           shown(c) == DispNorm(IF ns[c].label # <<>> THEN ns[c].label
                                ELSE ns[c].name)
       IN  /\ \A c \in DOMAIN ns :
                 IF around(c) = {}
                 THEN /\ into(c) = {}
                      /\ ns[c].path = <<"/">> \o shown(c)
                 ELSE LET par == CHOOSE p \in around(c) :
                                    \A o \in around(c) :
                                        ns[o].start_line <= ns[p].start_line
                      IN  /\ Cardinality(into(c)) = 1
                          /\ \A k \in into(c) : result.edges[k][1] = par
                          /\ ns[c].path = ns[par].path \o <<"/">> \o shown(c)
           /\ content = Siblings
                 => result.paths = << PathSoc, PathSocA, PathSocB >>

\* C20: for brace-balanced input with at most one brace character on a
\* line, the end_line of each node is the line of its matching closing brace
\* and the open stack is empty after the last line, before the forced close.
C20_ClosedAtMatchingBrace ==
    (/\ pc = "parse_loop" /\ idx = Len(lines)
     /\ Balanced(Braces(lines)) /\ OneBracePerLine(lines))
    => LET tk == Braces(lines)
       IN  /\ stack = <<>>
           /\ \A n \in DOMAIN nodes :
                 nodes[n].end_line
                     = tk[MatchOf(tk, OpeningOf(tk, nodes[n].start_line))].line

\* The same for input without string literals.
C20_WithoutStrings ==
    (\A k \in 1..Len(content) : content[k] \notin {SQ, DQ})
        => C20_ClosedAtMatchingBrace


\* C21: in every parse result and for every edge (p, c), the line span of
\* the child lies inside that of the parent: start_line(p) < start_line(c)
\* and end_line(c) <= end_line(p), for any input.
C21_ChildSpanInsideParent ==
    pc = "parse_done" =>
        \A k \in 1..Len(result.edges) :
            LET p == result.nodes[result.edges[k][1]]
                c == result.nodes[result.edges[k][2]]
            IN  /\ p.start_line < c.start_line
                /\ c.end_line <= p.end_line

\* A child closed by its own closing brace on a line before the line that
\* closes its parent.
C21_Witness ==
    /\ pc = "parse_done"
    /\ \E k \in 1..Len(result.edges) :
          LET p == result.nodes[result.edges[k][1]]
              c == result.nodes[result.edges[k][2]]
          IN  c.start_line < c.end_line /\ c.end_line < p.end_line


\* The entries of a diagram
Entries(d) == {d[k] : k \in 1..Len(d)}

\* The edges of a diagram as pairs
EdgePairs(d) == {<<e.from, e.to>> : e \in {x \in Entries(d) : x.kind = "edge"}}

\* The indices i whose node id(i) is declared in the diagram d
Shown(d, id(_), I) == {i \in I : [kind |-> "node", id |-> id(i)] \in Entries(d)}

IndexRange == 0..9

\* The chain CPU_IDLE -> CLUSTER_IDLE -> CLUSTER_PD -> MPM and the edge of
\* every shown power domain to CPU_IDLE
ChainAndDomains(d) ==
    /\ \A j \in Shown(d, PdId, IndexRange) :
           <<PdId(j), IdCpuIdle>> \in EdgePairs(d)
    /\ <<IdCpuIdle, IdClusterIdle>> \in EdgePairs(d)
    /\ <<IdClusterIdle, IdClusterPd>> \in EdgePairs(d)
    /\ <<IdClusterPd, IdMpm>> \in EdgePairs(d)

\* Every shown CPU index in P has an edge to its power domain, every other
\* one an edge to CPU_IDLE.
CpuEdges(d, P) ==
    \A i \in Shown(d, CpuId, IndexRange) :
        /\ i \in P => <<CpuId(i), PdId(i)>> \in EdgePairs(d)
        /\ i \notin P => <<CpuId(i), IdCpuIdle>> \in EdgePairs(d)

\* C22 as stated: in the idle diagram every shown CPU index i has an edge
\* CPU_i -> PD_i when i is in the power-domain index set and an edge
\* CPU_i -> CPU_IDLE when it is not; every shown power-domain node has an
\* edge to CPU_IDLE; the chain CPU_IDLE -> CLUSTER_IDLE -> CLUSTER_PD -> MPM
\* is present.
C22_DiagramEdges ==
    (pc = "idle_done" /\ idle_diagram # EmptyDiagram) =>
        /\ CpuEdges(idle_diagram, Elements(info.pd_idxs))
        /\ ChainAndDomains(idle_diagram)

\* C22, amended: the same with the power-domain indices that are shown
\* (the first eight) in place of the power-domain index set.
C22_DiagramEdgesShown ==
    (pc = "idle_done" /\ idle_diagram # EmptyDiagram) =>
        /\ CpuEdges(idle_diagram, Shown(idle_diagram, PdId, IndexRange))
        /\ ChainAndDomains(idle_diagram)

\* A diagram with a CPU that has a shown power domain and one that has none.
C22_Witness ==
    /\ pc = "idle_done" /\ idle_diagram # EmptyDiagram
    /\ <<CpuId(0), PdId(0)>> \in EdgePairs(idle_diagram)
    /\ <<CpuId(8), IdCpuIdle>> \in EdgePairs(idle_diagram)


\* The indices k for which the line l(k) is a line of the text c
MatchedOn(c, l(_)) ==
    LET ls == Elements(SplitLines(c)) IN {k \in IndexRange : l(k) \in ls}

\* q lists the set S in ascending order without repetition.
ListsSorted(q, S) ==
    /\ Elements(q) = S
    /\ \A j \in 1..(Len(q) - 1) : q[j] < q[j + 1]

\* C23: with an idle marker present, extract_idle_info reports the CPU index
\* set {0,1,2,3} when no CPU index is matched and the sorted distinct matched
\* indices otherwise, and the same for the power-domain index set.
C23_IndexSets ==
    (pc = "idle_done" /\ HasIdleMarker(idle_content)) =>
        LET cpus == MatchedOn(idle_content, CpuLine)
            pds == MatchedOn(idle_content, CpuPdLine)
        IN  /\ cpus = {} => info.cpu_idxs = <<0, 1, 2, 3>>
            /\ cpus # {} => ListsSorted(info.cpu_idxs, cpus)
            /\ pds = {} => info.pd_idxs = <<0, 1, 2, 3>>
            /\ pds # {} => ListsSorted(info.pd_idxs, pds)

\* The labels cpu8 and cpu0 in this order, cpu0 twice, and no power domain
C23_Witness ==
    /\ pc = "idle_done" /\ HasIdleMarker(idle_content)
    /\ SplitLines(idle_content)
          = << LineIdleStates, CpuLine(8), CpuLine(0), CpuLine(0) >>
    /\ info.cpu_idxs = <<0, 8>>
    /\ info.pd_idxs = <<0, 1, 2, 3>>


\* The ids a diagram declares, as a node or as a subgraph
Declared(d) == {x.id : x \in {y \in Entries(d) : y.kind \in {"node", "subgraph"}}}

\* C24: in every overview diagram, every node id used as the source or the
\* target of an edge is declared in the same diagram; in particular the edge
\* R_soc --> SOC is there only when R_soc is among the root entries kept after
\* the cut to max_root_children.
C24_EdgeEndsDeclared ==
    pc = "overview_done" =>
        /\ \A e \in EdgePairs(overview) :
               e[1] \in Declared(overview) /\ e[2] \in Declared(overview)
        /\ <<IdRSoc, IdSoc>> \in EdgePairs(overview)
               => \E k \in 1..Len(root_sorted) : root_sorted[k][1] = NameSoc


\* The numbers of the lines that the node-opening pattern matches
MatchingLines(ls) ==
    {j \in 1..Len(ls) : NodeOpenSearch(RStrip(ls[j])).matched}

\* The ids of the nodes that the diagram entries d declare, in order
RECURSIVE DeclaredNodes(_)
DeclaredNodes(d) ==
    IF d = <<>> THEN <<>>
    ELSE (IF Head(d).kind = "node" THEN <<Head(d).id>> ELSE <<>>)
         \o DeclaredNodes(Tail(d))

\* C25: node ids are N0, N1, N2, ... in the order of the lines on which the
\* node-opening pattern matches; ids are unique, at most one node is created
\* per line, and the number of nodes equals the number of matching lines.
C25_NodeIds ==
    pc = "parse_done" =>
        LET M == MatchingLines(lines)
            n == Cardinality(M)
        IN  /\ DOMAIN result.nodes = {<<"N", k>> : k \in 0..(n - 1)}
            /\ Cardinality(DOMAIN result.nodes) = n
            /\ \A k \in 0..(n - 1) :
                   /\ result.nodes[<<"N", k>>].start_line \in M
                   /\ Cardinality({j \in M :
                          j < result.nodes[<<"N", k>>].start_line}) = k
            /\ DeclaredNodes(result.mermaid_code)
                   = [k \in 1..n |-> <<"N", k - 1>>]

\* Two nodes, the second two lines after the first
C25_Witness ==
    /\ pc = "parse_done"
    /\ DOMAIN result.nodes = {<<"N", 0>>, <<"N", 1>>}
    /\ result.nodes[<<"N", 0>>].start_line = 1
    /\ result.nodes[<<"N", 1>>].start_line = 3


\* The threads of a project that have been started and have not ended
Running(name) ==
    {t \in DOMAIN threads : threads[t].name = name /\ threads[t].at # "done"}

\* C26: for each project, at most one clone job is running at any time.
C26_OneJobPerProject ==
    pc = "serving" => \A name \in Projects : Cardinality(Running(name)) <= 1

\* A clone request is not accepted while the status of the project is
\* cloning, and a status ready is not replaced by cloning by a job that was
\* reading its output.
C26_NoOverwrite ==
    [][pc = "serving" =>
          /\ Len(threads') > Len(threads) =>
                 GetState(State, threads'[Len(threads')].name).status
                     # "cloning"
          /\ \A t \in DOMAIN threads :
                 (/\ threads[t].at = "read"
                  /\ threads'[t] # threads[t]
                  /\ GetState(State, threads[t].name).status = "ready")
                 => GetState(State', threads[t].name).status # "cloning"]_vars


\* The projects all of whose clone jobs have ended (each job sets the status
\* to cloning as its first update)
Ended(name) ==
    /\ \E t \in DOMAIN threads : threads[t].name = name
    /\ Running(name) = {}

\* C27: once the threads of the clone jobs of a project have ended, its
\* status is ready with percent 100 or error, never cloning.
C27_EndsReadyOrError ==
    pc = "serving" =>
        \A name \in Projects :
            Ended(name) =>
                \/ /\ GetState(State, name).status = "ready"
                   /\ GetState(State, name).percent = 100
                \/ GetState(State, name).status = "error"

\* The same for the jobs of run_sparse_checkout, whose steps after the first
\* update are all inside its try block.
C27_SparseCheckoutEnds ==
    program = "git_service" => C27_EndsReadyOrError

====
